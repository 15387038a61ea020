------------------------ MODULE RollbackDrillProofs ------------------------
(***************************************************************************)
(* For any worktree, any edits of it, any changes of the input binaries    *)
(* and any writes of the processes: the summary of the drill is true, what *)
(* it runs has the digests of the input lock, the previous release starts  *)
(* on what was there before the migration, and nothing is left.            *)
(*                                                                         *)
(* The stages come in a fixed order, so what a stage can rely on is stated *)
(* by its place.  WalkInv is what makes an inspection conclusive: once a   *)
(* directory is listed, each of its paths was as the commit has it at some *)
(* moment, or is in the snapshot, or is still to be looked at.             *)
(***************************************************************************)
EXTENDS RollbackDrill, TLAPS

Entries == {NoEntry} \cup [kind : Kinds, data : Data, safe : BOOLEAN, ver : Nat]

(* What a walk has to do. *)
Enter(d) == [op |-> "enter", dir |-> d]
OpenPath(p) == [op |-> "open", path |-> p]
ReadPath(p) == [op |-> "read", path |-> p]

Ops ==
  {Enter(d) : d \in Dirs} \cup [op : {"leave"}, dir : Dirs, ver : Nat]
    \cup {OpenPath(p) : p \in Blobs} \cup {ReadPath(p) : p \in Blobs}

Has(todo, op) == \E i \in 1 .. Len(todo) : todo[i] = op

(* The last thing to do is to leave a directory, or to enter the first. *)
Closes(todo) == todo # <<>> => todo[Len(todo)].op \in {"enter", "leave"}

(* An entry is what the commit has at a path. *)
Agrees(e, p) ==
  IF p \in DOMAIN Tree THEN e.kind = Tree[p].kind /\ e.data = Tree[p].data ELSE e = NoEntry

(* The entry that is open was at its path, and so was what is there now or *)
(* was there last.                                                         *)
ReadInv(i, p) ==
  /\ i.entry \in Entries \ {NoEntry}
  /\ Agrees(i.entry, p) => p \in witnessed
  /\ LET now == IF i.gone = NoEntry THEN disk[p] ELSE i.gone
     IN  /\ now \in Entries /\ now.kind = i.entry.kind
         /\ Agrees(now, p) => p \in witnessed

(* A directory has been listed. *)
Entered(i, d) == IF d = RootDir THEN ~Has(i.todo, Enter(RootDir)) ELSE d \in DOMAIN i.snap

(* What was listed is done or to be done. *)
Handled(i, p) ==
  \/ p \in DOMAIN i.snap
  \/ p \in Directories /\ Has(i.todo, Enter(p))
  \/ p \in Blobs /\ (p \in witnessed \/ Has(i.todo, OpenPath(p)) \/ Has(i.todo, ReadPath(p)))

WalkInv(i) ==
  /\ i.todo \in Seq(Ops) /\ Closes(i.todo)
  /\ i.pc = "walk" => i.todo # <<>>
  /\ i.pc = "conclude" => i.todo = <<>>
  /\ \A n \in 2 .. Len(i.todo) : i.todo[n].op # "read"
  /\ i.todo # <<>> /\ Head(i.todo).op = "read" => ReadInv(i, Head(i.todo).path)
  /\ i.todo = <<>> \/ Head(i.todo).op # "read" => i.gone = NoEntry
  /\ DOMAIN i.snap \subseteq Paths
  /\ \A p \in DOMAIN i.snap \cap DOMAIN Tree : i.snap[p] = Tree[p] => p \in witnessed
  /\ \A p \in Paths \ DOMAIN Tree : Entered(i, Parent[p]) => Handled(i, p)

InspPcs == {"idle", "open", "git", "walk", "conclude", "done", "failed"}

InspType(i) ==
  [pc : InspPcs, id : {i.id}, todo : {i.todo}, entry : {i.entry}, gone : {i.gone},
   snap : {i.snap}, dirty : BOOLEAN]

(* The worktree, and what the inspection knows of it. *)
TreeInv ==
  /\ disk \in [Blobs -> Entries]
  /\ dirver \in [Dirs -> Nat]
  /\ edits \in Nat
  /\ insp \in InspType(insp)
  /\ insp.pc # "idle" => Matching(disk) \subseteq witnessed
  /\ insp.pc \in {"open", "git"} => insp.gone = NoEntry /\ insp.snap = <<>> /\ insp.todo = <<>>
  /\ insp.pc \in {"walk", "conclude"} => WalkInv(insp)
  /\ insp.pc = "done" /\ ~insp.dirty => Blobs \subseteq witnessed
----------------------------------------------------------------------------

(* The place of a stage, and the stages that have a place after another. *)
Place(s) == CHOOSE i \in DOMAIN Stages : Stages[i] = s
Past(s) == pc \in StageNames /\ Place(pc) > Place(s)

GatewayStages ==
  {"health_candidate", "reject_candidate", "accept_candidate", "stop_candidate",
   "health_rollback", "reject_rollback", "accept_rollback", "stop_rollback"}

(* What is left for the end. *)
Deferrals ==
  {"runner", "root", "snapshots", "secrets", "provider", "store", "token"} \cup Bins

AnyInput == [data : Binaries, ino : Nat, ver : Nat]

MemType ==
  [deferred : Seq(Deferrals), dirty : BOOLEAN, snap : {mem.snap}, copy : AnyInput,
   sealed : [Bins -> Binaries], store : Contents, backup : Contents, config : Contents]

EnvType ==
  [faults : {"editor", "processes"}, cancelled : BOOLEAN, inputs : [Bins -> AnyInput], swaps : Nat]

TmpType == [root : BOOLEAN, files : [Files -> Contents], writes : Nat]

GroupType == [exe : Binaries, leader : BOOLEAN, others : {"none", "quiet", "holding"}]

OutType == [class : {"none", "FINAL_CANDIDATE", "ITERATION_ONLY"}, exit : {"none", "0", "1"}]

HistType == [ran : SUBSET Binaries, passed : SUBSET Bins, clean : Seq(BOOLEAN)]

DrillType ==
  /\ pc \in StageNames \cup {"unwind", "exited"}
  /\ mem \in MemType /\ env \in EnvType /\ tmp \in TmpType /\ group \in GroupType
  /\ out \in OutType /\ hist \in HistType

(* Where a process may be, and who stops it. *)
GroupInv ==
  /\ group.exe = "none" => group = NoGroup
  /\ group # NoGroup =>
       /\ tmp.root
       /\ \/ pc \in ChildStages
          \/ /\ pc \in GatewayStages \cup {"unwind"}
             /\ mem.deferred # <<>> /\ Head(mem.deferred) \in Bins

RootInv ==
  /\ Past("root") /\ pc # "publish" => tmp.root
  /\ pc = "publish" => tmp = Removed

(* The copies: all the contents that run are locked. *)
NoCopies == mem.sealed = [b \in Bins |-> "none"]

SealedInv ==
  /\ hist.ran \subseteq {"locked"}
  /\ Past("digests") => \A b \in Bins : mem.sealed[b] = "locked"
  /\ \/ NoCopies
     \/ pc \in {"open_rollback", "seal_rollback"}
     \/ Has(mem.deferred, "snapshots")
  /\ pc = "exited" => NoCopies

(* What the drill has recorded of the store and the configuration. *)
StoreInv ==
  /\ Past("store") => mem.store = "legacy"
  /\ Past("configs") => mem.config = "config"
  /\ pc = "start_rollback" =>
       tmp.files["restored"] = "legacy" /\ tmp.files["newconfig"] = "config"

(* What the summary says. *)
SummaryInv ==
  /\ Past("accept_candidate") => "candidate" \in hist.passed
  /\ Past("accept_rollback") => "rollback" \in hist.passed
  /\ pc \in StageNames => out = [class |-> "none", exit |-> "none"]
  /\ out.class # "none" =>
       hist.passed = Bins /\ tmp = Removed /\ group = NoGroup /\ out.exit = "0"

(* What the inspections have shown. *)
CleanInv ==
  /\ insp.pc # "idle" => pc \in {"inspect", "reinspect"}
  /\ pc \in {"input", "inspect"} => hist.clean = <<>>
  /\ Past("inspect") /\ ~Past("reinspect") =>
       Len(hist.clean) = 1 /\ (~mem.dirty => hist.clean[1])
  /\ Past("reinspect") =>
       Len(hist.clean) = 2 /\ (~mem.dirty => hist.clean[1] /\ hist.clean[2])

(* The inductive invariant. *)
IInv ==
  /\ TreeInv /\ DrillType /\ GroupInv /\ RootInv /\ SealedInv /\ StoreInv
  /\ SummaryInv /\ CleanInv /\ FinalMeansClean
----------------------------------------------------------------------------

(* An entry is absent, or has the four fields. *)
LEMMA EntryFacts ==
  ASSUME NEW e \in Entries
  PROVE  /\ e = NoEntry <=> e.kind = "none"
         /\ e # NoEntry => e.kind \in Kinds /\ e.data \in Data /\ e.safe \in BOOLEAN /\ e.ver \in Nat
BY DEF Entries, NoEntry, Kinds

(* What an inspection is when it has begun, failed, or is not running. *)
LEMMA IdleFacts ==
  ASSUME NEW x \in InspPcs, NEW c, c = [Idle EXCEPT !.pc = x]
  PROVE  /\ c \in InspType(c)
         /\ c.pc = x /\ c.todo = <<>> /\ c.gone = NoEntry /\ c.snap = <<>> /\ c.dirty = FALSE
<1>1. c \in [pc : InspPcs, id : {0}, todo : {<<>>}, entry : {NoEntry}, gone : {NoEntry},
             snap : {<<>>}, dirty : {FALSE}]
  BY ZenonT(60) DEF Idle
<1>2. c.pc = x
  BY DEF Idle
<1> QED
  BY <1>1, <1>2, ZenonT(60) DEF InspType

(* An inspection that fails or begins. *)
LEMMA InspReset ==
  ASSUME TreeInv, NEW x \in {"failed", "open"}, insp' = [Idle EXCEPT !.pc = x],
         disk' \in [Blobs -> Entries], dirver' \in [Dirs -> Nat], edits' \in Nat,
         Matching(disk)' \subseteq witnessed'
  PROVE  TreeInv'
<1>1. /\ insp' \in InspType(insp')
      /\ insp'.pc = x /\ insp'.todo = <<>> /\ insp'.gone = NoEntry /\ insp'.snap = <<>>
  BY IdleFacts, ZenonT(60) DEF InspPcs
<1>2. (insp \in InspType(insp))'
  BY <1>1
<1> QED
  BY <1>1, <1>2 DEF TreeInv

(* A step of the inspection that leaves the worktree as it is. *)
LEMMA TreeSameFacts ==
  ASSUME TreeInv, TreeSame, insp.pc # "idle"
  PROVE  /\ disk' \in [Blobs -> Entries] /\ dirver' \in [Dirs -> Nat] /\ edits' \in Nat
         /\ Matching(disk)' \subseteq witnessed'
         /\ disk' = disk /\ witnessed' = witnessed
BY DEF TreeInv, TreeSame, Matching, MatchesIn

(* An inspection that fails keeps nothing of what it has seen. *)
LEMMA InspFailStep ==
  ASSUME TreeInv, TreeSame, insp.pc # "idle", InspFail
  PROVE  TreeInv'
BY InspReset, TreeSameFacts DEF InspFail

(* A step that leaves the worktree and the inspection alone. *)
LEMMA TreeUnchanged ==
  ASSUME TreeInv, UNCHANGED treeVars
  PROVE  TreeInv'
<1>1. /\ disk' = disk /\ dirver' = dirver /\ edits' = edits /\ insp' = insp
      /\ witnessed' = witnessed
  BY DEF treeVars
<1>2. WalkInv(insp) => WalkInv(insp)'
  BY <1>1, ZenonT(60) DEF WalkInv, ReadInv, Agrees, Handled
<1>3. Matching(disk)' = Matching(disk)
  BY <1>1 DEF Matching, MatchesIn
<1> QED
  BY <1>1, <1>2, <1>3 DEF TreeInv

(* openCandidateRepository opens the repository and checks its layout. *)
LEMMA OpenRepositoryStep ==
  ASSUME TreeInv, OpenCandidateRepository
  PROVE  TreeInv'
<1>1. CASE InspFail
  BY <1>1, InspFailStep DEF OpenCandidateRepository
<1>2. CASE insp' = [insp EXCEPT !.pc = "git", !.id = repo.id]
  <2>1. insp \in InspType(insp) /\ insp.pc = "open"
    BY DEF TreeInv, OpenCandidateRepository
  <2>2. insp' \in [pc : {"git"}, id : {repo.id}, todo : {insp.todo}, entry : {insp.entry},
                   gone : {insp.gone}, snap : {insp.snap}, dirty : BOOLEAN]
    BY <1>2, <2>1, ZenonT(60) DEF InspType
  <2>3. /\ insp'.pc = "git" /\ insp'.todo = insp.todo /\ insp'.gone = insp.gone
        /\ insp'.snap = insp.snap
    BY <2>2
  <2>4. (insp \in InspType(insp))'
    BY <2>2 DEF InspType, InspPcs
  <2>5. TreeSame
    BY DEF OpenCandidateRepository
  <2> QED
    BY <2>1, <2>3, <2>4, <2>5, TreeSameFacts DEF TreeInv
<1> QED
  BY <1>1, <1>2 DEF OpenCandidateRepository

(* The commit is read, and the walk is to enter the root. *)
LEMMA GitIdentityStep ==
  ASSUME TreeInv, NEW cancelled, GitIdentity(cancelled)
  PROVE  TreeInv'
<1>1. CASE InspFail
  BY <1>1, InspFailStep DEF GitIdentity
<1>2. CASE insp' = [insp EXCEPT !.pc = "walk", !.todo = <<[op |-> "enter", dir |-> RootDir]>>]
  <2>1. insp \in InspType(insp) /\ insp.pc = "git" /\ insp.gone = NoEntry /\ insp.snap = <<>>
    BY DEF TreeInv, GitIdentity
  <2> DEFINE t == <<Enter(RootDir)>>
  <2>2. insp' \in [pc : {"walk"}, id : {insp.id}, todo : {t}, entry : {insp.entry},
                   gone : {insp.gone}, snap : {insp.snap}, dirty : BOOLEAN]
    BY <1>2, <2>1, ZenonT(60) DEF InspType, Enter
  <2>3. /\ t \in Seq(Ops) /\ Closes(t) /\ Len(t) = 1 /\ t[1] = Enter(RootDir)
        /\ t # <<>> /\ Head(t) = Enter(RootDir)
    <3>1. Enter(RootDir) \in Ops
      BY DEF Ops, Dirs
    <3> QED
      BY <3>1 DEF Closes, Enter
  <2>4. insp'.pc = "walk" /\ insp'.todo = t /\ insp'.gone = NoEntry /\ insp'.snap = <<>>
    BY <2>1, <2>2
  <2> HIDE DEF t
  <2>5. (insp \in InspType(insp))'
    BY <2>2, <2>4 DEF InspType, InspPcs
  <2>6. TreeSame
    BY DEF GitIdentity
  <2>7. WalkInv(insp)'
    <3>1. Head(insp'.todo).op = "enter"
      BY <2>3, <2>4 DEF Enter
    <3>2. DOMAIN insp'.snap = {}
      BY <2>4
    <3>3. \A p \in Paths : ~Entered(insp, Parent[p])'
      BY <2>3, <2>4, <3>2 DEF Entered, Has
    <3>4. insp'.todo \in Seq(Ops) /\ Closes(insp'.todo) /\ insp'.todo # <<>> /\ Len(insp'.todo) = 1
      BY <2>3, <2>4
    <3> QED
      BY <2>4, <3>1, <3>2, <3>3, <3>4 DEF WalkInv
  <2> QED
    BY <2>1, <2>4, <2>5, <2>6, <2>7, TreeSameFacts DEF TreeInv
<1> QED
  BY <1>1, <1>2 DEF GitIdentity
----------------------------------------------------------------------------
(* What is to be done after a piece of it is done or added.                *)

(* What is in one of two joined sequences is in the whole, and nothing     *)
(* else.                                                                   *)
LEMMA HasParts ==
  ASSUME NEW S, NEW s \in Seq(S), NEW t \in Seq(S), NEW x
  PROVE  Has(s \o t, x) <=> Has(s, x) \/ Has(t, x)
<1> DEFINE m == Len(s)
           n == Len(t)
           u == s \o t
<1>1. /\ m \in Nat /\ n \in Nat /\ Len(u) = m + n
      /\ \A i \in 1 .. m : u[i] = s[i]
      /\ \A i \in 1 .. n : u[m + i] = t[i]
  OBVIOUS
<1> HIDE DEF u
<1>2. Has(s, x) => Has(u, x)
  BY <1>1 DEF Has
<1>3. Has(t, x) => Has(u, x)
  <2> SUFFICES ASSUME NEW i \in 1 .. n, t[i] = x PROVE Has(u, x)
    BY DEF Has
  <2>1. m + i \in 1 .. Len(u) /\ u[m + i] = x
    BY <1>1
  <2> QED
    BY <2>1 DEF Has
<1>4. Has(u, x) => Has(s, x) \/ Has(t, x)
  <2> SUFFICES ASSUME NEW i \in 1 .. Len(u), u[i] = x PROVE Has(s, x) \/ Has(t, x)
    BY DEF Has
  <2>1. CASE i \in 1 .. m
    BY <1>1, <2>1 DEF Has
  <2>2. CASE i \notin 1 .. m
    <3>1. i - m \in 1 .. n /\ m + (i - m) = i
      BY <1>1, <2>2
    <3>2. t[i - m] = x
      BY <1>1, <3>1
    <3> QED
      BY <3>1, <3>2 DEF Has
  <2> QED
    BY <2>1, <2>2
<1> QED
  BY <1>2, <1>3, <1>4 DEF u

(* What is in a sequence is its head or in its tail. *)
LEMMA HasHead ==
  ASSUME NEW S, NEW s \in Seq(S), s # <<>>
  PROVE  /\ Head(s) \in S /\ Tail(s) \in Seq(S)
         /\ \A x : Has(s, x) <=> x = Head(s) \/ Has(Tail(s), x)
<1>1. /\ Len(s) \in Nat /\ Len(s) >= 1 /\ Head(s) = s[1] /\ Head(s) \in S
      /\ Tail(s) \in Seq(S) /\ Len(Tail(s)) = Len(s) - 1
      /\ \A i \in 1 .. Len(s) - 1 : Tail(s)[i] = s[i + 1]
  OBVIOUS
<1>2. ASSUME NEW x PROVE Has(s, x) <=> x = Head(s) \/ Has(Tail(s), x)
  <2>1. Has(s, x) => x = Head(s) \/ Has(Tail(s), x)
    <3> SUFFICES ASSUME NEW i \in 1 .. Len(s), s[i] = x, i # 1 PROVE Has(Tail(s), x)
      BY <1>1 DEF Has
    <3>1. i - 1 \in 1 .. Len(s) - 1 /\ (i - 1) + 1 = i
      BY <1>1
    <3>2. Tail(s)[i - 1] = x
      BY <1>1, <3>1
    <3> QED
      BY <1>1, <3>1, <3>2 DEF Has
  <2>2. x = Head(s) => Has(s, x)
    BY <1>1 DEF Has
  <2>3. Has(Tail(s), x) => Has(s, x)
    <3> SUFFICES ASSUME NEW i \in 1 .. Len(s) - 1, Tail(s)[i] = x PROVE Has(s, x)
      BY <1>1 DEF Has
    <3>1. i + 1 \in 1 .. Len(s) /\ s[i + 1] = x
      BY <1>1
    <3> QED
      BY <3>1 DEF Has
  <2> QED
    BY <2>1, <2>2, <2>3
<1> QED
  BY <1>1, <1>2

(* Only the first of what is to be done is the reading of an open file. *)
NoReads(s) == \A x : Has(s, x) => x.op # "read"

(* If only the first thing to do can be a read, the tail has none. *)
LEMMA ReadsFirst ==
  ASSUME NEW s \in Seq(Ops)
  PROVE  /\ s # <<>> => ((\A n \in 2 .. Len(s) : s[n].op # "read") <=> NoReads(Tail(s)))
         /\ s = <<>> => NoReads(s)
         /\ NoReads(s) => \A n \in 1 .. Len(s) : s[n].op # "read"
<1>1. ASSUME s # <<>>, \A n \in 2 .. Len(s) : s[n].op # "read" PROVE NoReads(Tail(s))
  <2> SUFFICES ASSUME NEW i \in 1 .. Len(Tail(s)) PROVE Tail(s)[i].op # "read"
    BY ZenonT(60) DEF NoReads, Has
  <2>1. i + 1 \in 2 .. Len(s) /\ Tail(s)[i] = s[i + 1]
    BY <1>1
  <2> QED
    BY <1>1, <2>1
<1>2. ASSUME s # <<>>, NoReads(Tail(s)), NEW n \in 2 .. Len(s) PROVE s[n].op # "read"
  <2>1. n - 1 \in 1 .. Len(Tail(s)) /\ Tail(s)[n - 1] = s[n]
    BY <1>2
  <2> QED
    BY <1>2, <2>1, ZenonT(60) DEF NoReads, Has
<1>3. s = <<>> => NoReads(s)
  BY DEF NoReads, Has
<1>4. NoReads(s) => \A n \in 1 .. Len(s) : s[n].op # "read"
  BY DEF NoReads, Has
<1> QED
  BY <1>1, <1>2, <1>3, <1>4

(* What is left to do after the first still ends with leaving a directory. *)
LEMMA ClosesTail ==
  ASSUME NEW s \in Seq(Ops), s # <<>>, Closes(s)
  PROVE  /\ Closes(Tail(s))
         /\ Head(s).op \notin {"enter", "leave"} => Tail(s) # <<>>
<1> DEFINE n == Len(s)
<1>1. /\ n \in Nat /\ n >= 1 /\ Len(Tail(s)) = n - 1 /\ Head(s) = s[1]
      /\ n > 1 => Tail(s)[n - 1] = s[n]
  OBVIOUS
<1>2. Tail(s) = <<>> <=> n = 1
  <2>1. ASSUME NEW t \in Seq(Ops) PROVE t = <<>> <=> Len(t) = 0
    OBVIOUS
  <2>2. Tail(s) \in Seq(Ops) /\ (Len(Tail(s)) = 0 <=> n = 1)
    BY <1>1
  <2> QED
    BY <2>1, <2>2, Zenon
<1> QED
  BY <1>1, <1>2 DEF Closes

(* So does a sequence that is put before one that does. *)
LEMMA ClosesJoin ==
  ASSUME NEW s \in Seq(Ops), NEW t \in Seq(Ops), Closes(s) \/ t # <<>>, Closes(t)
  PROVE  Closes(s \o t)
<1> DEFINE m == Len(s)
           n == Len(t)
           u == s \o t
<1>1. /\ m \in Nat /\ n \in Nat /\ Len(u) = m + n
      /\ n > 0 => u[m + n] = t[n]
      /\ n = 0 => u = s
      /\ t = <<>> <=> n = 0
  OBVIOUS
<1> HIDE DEF u
<1> QED
  BY <1>1 DEF Closes, u

(* The kinds of work. *)
LEMMA OpFacts ==
  ASSUME NEW x \in Ops
  PROVE  /\ x.op = "enter" => x.dir \in Dirs /\ x = Enter(x.dir)
         /\ x.op = "leave" => \A p : x # Enter(p) /\ x # OpenPath(p) /\ x # ReadPath(p)
         /\ x.op = "open" => x.path \in Blobs /\ x = OpenPath(x.path)
         /\ x.op = "read" => x.path \in Blobs /\ x = ReadPath(x.path)
BY DEF Ops, Enter, OpenPath, ReadPath

(* Work of different kinds, or on different paths, differs. *)
LEMMA OpNames ==
  ASSUME NEW p
  PROVE  /\ Enter(p).op = "enter" /\ OpenPath(p).op = "open" /\ ReadPath(p).op = "read"
         /\ \A q : /\ Enter(p) = Enter(q) => p = q
                   /\ OpenPath(p) = OpenPath(q) => p = q
                   /\ ReadPath(p) = ReadPath(q) => p = q
                   /\ Enter(p) # OpenPath(q) /\ Enter(p) # ReadPath(q) /\ OpenPath(p) # ReadPath(q)
BY DEF Enter, OpenPath, ReadPath

(* The listing of a directory has all its entries: what the walk needs of  *)
(* the finiteness of Paths (Listing, below).                               *)
Listable ==
  \A S \in SUBSET Paths :
    /\ SortedNames(S) \in Seq(S)
    /\ \A p \in S : \E i \in 1 .. Len(SortedNames(S)) : SortedNames(S)[i] = p
----------------------------------------------------------------------------
(* The steps of a walk.                                                    *)

(* A step of the walk keeps the invariant if what it has to do then does. *)
LEMMA WalkGoesOn ==
  ASSUME TreeInv, TreeSame, insp.pc = "walk", insp'.pc \in {"walk", "conclude"},
         insp' \in InspType(insp'), WalkInv(insp')
  PROVE  TreeInv'
<1>1. disk' = disk /\ witnessed' = witnessed
  BY DEF TreeSame
<1>2. WalkInv(insp)'
  BY <1>1 DEF WalkInv, ReadInv, Agrees, Handled, Entered, Has
<1>3. (insp \in InspType(insp))'
  OBVIOUS
<1> QED
  BY <1>2, <1>3, TreeSameFacts DEF TreeInv

(* walkCandidateDirectory lists a directory: every path that is in it is   *)
(* to be looked at, and every other was as the commit has it or is missing *)
(* there.                                                                  *)
LEMMA EnterDirectoryStep ==
  ASSUME Listable, TreeInv, NEW cancelled, EnterDirectory(cancelled)
  PROVE  TreeInv'
<1> DEFINE d == Work.dir
           names == SortedNames(Present(d))
           visits == [i \in 1 .. Len(names) |-> Visit(names[i])]
           leave == [op |-> "leave", dir |-> d, ver |-> dirver[d]]
           rest == Tail(insp.todo)
           todo == visits \o <<leave>> \o rest
           snap == IF d = RootDir THEN insp.snap ELSE SnapAdd(d, [kind |-> "dir"])
<1>1. TreeSame /\ insp.pc = "walk" /\ WalkInv(insp) /\ Work.op = "enter" /\ insp \in InspType(insp)
  BY DEF EnterDirectory, Doing, TreeInv
<1>2. /\ insp.todo \in Seq(Ops) /\ insp.todo # <<>> /\ Work = Head(insp.todo) /\ rest \in Seq(Ops)
      /\ Work \in Ops
      /\ \A x : Has(insp.todo, x) <=> x = Work \/ Has(rest, x)
  BY <1>1, HasHead DEF WalkInv, Work
<1>3. d \in Dirs /\ Work = Enter(d)
  BY <1>1, <1>2, OpFacts
<1>4. CASE insp' = [Idle EXCEPT !.pc = "failed"]
  BY <1>1, <1>4, InspFailStep DEF InspFail
<1>5. CASE insp' = [insp EXCEPT !.snap = snap, !.todo = todo]
  <2>1. Present(d) \in SUBSET Paths
    BY DEF Present
  <2>2. /\ names \in Seq(Present(d))
        /\ \A p \in Present(d) : \E i \in 1 .. Len(names) : names[i] = p
    BY <2>1, ZenonT(60) DEF Listable
  <2>3. \A p \in Present(d) : Visit(p) \in Ops /\ Visit(p).op # "read"
    <3> SUFFICES ASSUME NEW p \in Present(d) PROVE Visit(p) \in Ops /\ Visit(p).op # "read"
      OBVIOUS
    <3>1. CASE p \in Directories
      BY <3>1 DEF Visit, Ops, Enter, Dirs
    <3>2. CASE p \notin Directories
      BY <2>1, <3>2 DEF Visit, Ops, OpenPath, Blobs
    <3> QED
      BY <3>1, <3>2
  <2>4. /\ visits \in Seq(Ops) /\ Len(visits) = Len(names)
        /\ \A i \in 1 .. Len(names) : visits[i] = Visit(names[i])
    <3>1. Len(names) \in Nat /\ \A i \in 1 .. Len(names) : names[i] \in Present(d)
      BY <2>2
    <3>2. \A i \in 1 .. Len(names) : Visit(names[i]) \in Ops
      BY <2>3, <3>1, Zenon
    <3> QED
      BY <3>1, <3>2
  <2>5. \A p \in Present(d) : Has(visits, Visit(p))
    <3> SUFFICES ASSUME NEW p \in Present(d) PROVE Has(visits, Visit(p))
      OBVIOUS
    <3>1. PICK i \in 1 .. Len(names) : names[i] = p
      BY <2>2
    <3>2. i \in 1 .. Len(visits) /\ visits[i] = Visit(p)
      BY <2>4, <3>1
    <3> HIDE DEF visits
    <3> QED
      BY <3>2 DEF Has
  <2>6. \A x : Has(visits, x) => \E p \in Present(d) : x = Visit(p)
    <3>1. \A i \in 1 .. Len(names) : names[i] \in Present(d)
      BY <2>2
    <3> HIDE DEF visits, names
    <3> QED
      BY <2>4, <3>1 DEF Has
  <2>7. leave \in Ops
    BY <1>3 DEF TreeInv, Ops
  <2> HIDE DEF visits, names, leave, rest
  <2>8. /\ todo \in Seq(Ops)
        /\ \A x : Has(todo, x) <=> Has(visits, x) \/ x = leave \/ Has(rest, x)
        /\ todo # <<>>
    <3>1. <<leave>> \in Seq(Ops) /\ \A x : Has(<<leave>>, x) <=> x = leave
      BY <2>7 DEF Has
    <3>2. visits \o <<leave>> \in Seq(Ops)
      BY <2>4, <3>1
    <3>3. Len(todo) = Len(visits) + 1 + Len(rest)
      BY <1>2, <2>4, <2>7, SMTT(60)
    <3>4. \A x : Has(visits \o <<leave>>, x) <=> Has(visits, x) \/ x = leave
      BY <2>4, <3>1, HasParts, Zenon
    <3>5. \A x : Has(todo, x) <=> Has(visits \o <<leave>>, x) \/ Has(rest, x)
      BY <1>2, <3>2, HasParts, Zenon
    <3>6. todo \in Seq(Ops)
      BY <1>2, <3>2
    <3>7. todo # <<>>
      BY <1>2, <2>4, <3>3
    <3> QED
      BY <3>4, <3>5, <3>6, <3>7, Zenon
  <2>16. Closes(todo)
    <3>1. leave.op = "leave"
      BY DEF leave
    <3>2. <<leave>> \in Seq(Ops) /\ <<leave>> # <<>> /\ Closes(<<leave>>)
      BY <2>7, <3>1 DEF Closes
    <3>3. Closes(visits \o <<leave>>)
      BY <2>4, <3>2, ClosesJoin, Zenon
    <3>5. visits \o <<leave>> \in Seq(Ops)
      BY <2>4, <3>2
    <3>4. Closes(rest)
      BY <1>1, <1>2, ClosesTail DEF WalkInv, rest
    <3> QED
      BY <1>2, <3>3, <3>4, <3>5, ClosesJoin, Zenon
  <2>9. NoReads(todo)
    <3>1. leave.op = "leave"
      BY DEF leave
    <3>2. NoReads(rest)
      BY <1>1, <1>2, ReadsFirst DEF WalkInv, rest
    <3> QED
      BY <2>3, <2>6, <2>8, <3>1, <3>2 DEF NoReads
  <2> HIDE DEF todo
  <2>10. /\ DOMAIN snap = DOMAIN insp.snap \cup ({d} \ {RootDir})
         /\ \A q \in DOMAIN insp.snap \ {d} : snap[q] = insp.snap[q]
    BY <1>1 DEF SnapAdd
  <2> HIDE DEF snap
  <2>11. insp' \in [pc : {"walk"}, id : {insp.id}, todo : {todo}, entry : {insp.entry},
                    gone : {insp.gone}, snap : {snap}, dirty : BOOLEAN]
    BY <1>1, <1>5, ZenonT(60) DEF InspType
  <2>12. insp'.pc = "walk" /\ insp'.todo = todo /\ insp'.gone = insp.gone /\ insp'.snap = snap
    BY <2>11
  <2>13. insp' \in InspType(insp')
    BY <2>11, <2>12 DEF InspType, InspPcs
  <2>14. ASSUME NEW p \in Paths \ DOMAIN Tree, Entered(insp', Parent[p]) PROVE Handled(insp', p)
    <3>1. CASE Parent[p] = d /\ p \in Present(d)
      <4>1. Has(todo, Visit(p))
        BY <2>5, <2>8, <3>1
      <4> QED
        BY <2>12, <4>1 DEF Handled, Visit, Enter, OpenPath, Blobs
    <3>2. CASE Parent[p] = d /\ p \notin Present(d)
      <4>1. p \in Blobs /\ disk[p] = NoEntry
        BY <3>2 DEF Present, Blobs
      <4>2. p \in Matching(disk)
        BY <4>1 DEF Matching, MatchesIn
      <4> QED
        BY <1>1, <4>1, <4>2 DEF TreeInv, Handled
    <3>3. CASE Parent[p] # d
      <4>1. Entered(insp, Parent[p])
        <5>1. CASE Parent[p] = RootDir
          <6>1. ~Has(todo, Enter(RootDir))
            BY <2>12, <2>14, <5>1 DEF Entered
          <6>2. Work # Enter(RootDir)
            BY <1>3, <3>3, <5>1, OpNames
          <6> QED
            BY <1>2, <2>8, <5>1, <6>1, <6>2 DEF Entered
        <5>2. CASE Parent[p] # RootDir
          BY <2>10, <2>12, <2>14, <3>3, <5>2 DEF Entered
        <5> QED
          BY <5>1, <5>2
      <4>2. Handled(insp, p)
        BY <1>1, <4>1 DEF WalkInv
      <4>3. CASE p \in DOMAIN insp.snap
        BY <2>10, <2>12, <4>3 DEF Handled
      <4>4. CASE p \in Directories /\ Has(insp.todo, Enter(p))
        <5>1. p # RootDir
          BY TreeAssumption
        <5>2. CASE p = d
          BY <2>10, <2>12, <5>1, <5>2 DEF Handled
        <5>3. CASE p # d
          <6>1. Has(rest, Enter(p))
            BY <1>2, <1>3, <4>4, <5>3, OpNames
          <6> QED
            BY <2>8, <2>12, <4>4, <6>1 DEF Handled
        <5> QED
          BY <5>2, <5>3
      <4>5. CASE p \in Blobs /\ p \in witnessed
        BY <4>5 DEF Handled
      <4>6. CASE p \in Blobs /\ (Has(insp.todo, OpenPath(p)) \/ Has(insp.todo, ReadPath(p)))
        <5>1. Has(rest, OpenPath(p)) \/ Has(rest, ReadPath(p))
          BY <1>2, <1>3, <4>6, OpNames
        <5> QED
          BY <2>8, <2>12, <4>6, <5>1 DEF Handled
      <4> QED
        BY <4>2, <4>3, <4>4, <4>5, <4>6 DEF Handled
    <3> QED
      BY <3>1, <3>2, <3>3
  <2>15. WalkInv(insp')
    <3>1. insp.gone = NoEntry
      BY <1>1, <1>2 DEF WalkInv
    <3>2. \A n \in 1 .. Len(todo) : todo[n].op # "read"
      BY <2>8, <2>9, ReadsFirst
    <3>3. Head(todo).op # "read"
      BY <2>8, <3>2
    <3>4. DOMAIN snap \subseteq Paths
      BY <1>1, <1>3, <2>10, TreeAssumption DEF WalkInv, Dirs
    <3>5. \A p \in DOMAIN snap \cap DOMAIN Tree : snap[p] = Tree[p] => p \in witnessed
      <4>1. d \notin DOMAIN Tree
        BY <1>3, TreeAssumption DEF Dirs, Blobs
      <4> QED
        BY <1>1, <2>10, <4>1 DEF WalkInv
    <3> QED
      BY <2>8, <2>12, <2>14, <2>16, <3>1, <3>2, <3>3, <3>4, <3>5, SMTT(60) DEF WalkInv
  <2> QED
    BY <1>1, <2>12, <2>13, <2>15, WalkGoesOn
<1> QED
  BY <1>4, <1>5 DEF EnterDirectory

(* walkCandidateDirectory looks at the directory again. *)
LEMMA LeaveDirectoryStep ==
  ASSUME TreeInv, LeaveDirectory
  PROVE  TreeInv'
<1> DEFINE rest == Tail(insp.todo)
           next == IF rest = <<>> THEN "conclude" ELSE "walk"
<1>1. TreeSame /\ insp.pc = "walk" /\ WalkInv(insp) /\ Work.op = "leave" /\ insp \in InspType(insp)
  BY DEF LeaveDirectory, Doing, TreeInv
<1>2. /\ insp.todo \in Seq(Ops) /\ insp.todo # <<>> /\ Work = Head(insp.todo) /\ rest \in Seq(Ops)
      /\ Work \in Ops
      /\ \A x : Has(insp.todo, x) <=> x = Work \/ Has(rest, x)
  BY <1>1, HasHead DEF WalkInv, Work
<1>3. \A p : Work # Enter(p) /\ Work # OpenPath(p) /\ Work # ReadPath(p)
  BY <1>1, <1>2, OpFacts
<1>4. CASE InspFail
  BY <1>1, <1>4, InspFailStep
<1>5. CASE insp' = [insp EXCEPT !.todo = rest, !.pc = next]
  <2>1. insp' \in [pc : {next}, id : {insp.id}, todo : {rest}, entry : {insp.entry},
                   gone : {insp.gone}, snap : {insp.snap}, dirty : BOOLEAN]
    BY <1>1, <1>5, ZenonT(60) DEF InspType
  <2>2. /\ insp'.pc = next /\ insp'.todo = rest /\ insp'.gone = insp.gone
        /\ insp'.snap = insp.snap
    BY <2>1
  <2>3. insp' \in InspType(insp')
    BY <2>1, <2>2 DEF InspType, InspPcs
  <2>4. NoReads(rest)
    BY <1>1, <1>2, ReadsFirst DEF WalkInv
  <2>5. \A n \in 1 .. Len(rest) : rest[n].op # "read"
    BY <1>2, <2>4, ReadsFirst
  <2>6. rest # <<>> => Head(rest).op # "read"
    BY <1>2, <2>5
  <2>7. insp.gone = NoEntry /\ Closes(rest)
    BY <1>1, <1>2, ClosesTail DEF WalkInv
  <2> HIDE DEF rest
  <2>8. ASSUME NEW p \in Paths \ DOMAIN Tree, Entered(insp', Parent[p]) PROVE Handled(insp', p)
    <3>1. Entered(insp, Parent[p])
      BY <1>2, <1>3, <2>2, <2>8 DEF Entered
    <3>2. Handled(insp, p)
      BY <1>1, <3>1 DEF WalkInv
    <3> QED
      BY <1>2, <1>3, <2>2, <3>2 DEF Handled
  <2>9. WalkInv(insp')
    BY <1>1, <1>2, <2>2, <2>5, <2>6, <2>7, <2>8 DEF WalkInv
  <2> QED
    BY <1>1, <2>2, <2>3, <2>9, WalkGoesOn
<1> QED
  BY <1>4, <1>5 DEF LeaveDirectory

(* A listed entry is opened. *)
LEMMA OpenEntryStep ==
  ASSUME TreeInv, NEW cancelled, OpenEntry(cancelled)
  PROVE  TreeInv'
<1> DEFINE w == Work.path
           e == disk[w]
           rest == Tail(insp.todo)
           todo == <<ReadPath(w)>> \o rest
<1>1. TreeSame /\ insp.pc = "walk" /\ WalkInv(insp) /\ Work.op = "open" /\ insp \in InspType(insp)
  BY DEF OpenEntry, Doing, TreeInv
<1>2. /\ insp.todo \in Seq(Ops) /\ insp.todo # <<>> /\ Work = Head(insp.todo) /\ rest \in Seq(Ops)
      /\ Work \in Ops
      /\ \A x : Has(insp.todo, x) <=> x = Work \/ Has(rest, x)
  BY <1>1, HasHead DEF WalkInv, Work
<1>3. w \in Blobs /\ Work = OpenPath(w)
  BY <1>1, <1>2, OpFacts
<1>4. CASE InspFail
  BY <1>1, <1>4, InspFailStep
<1>5. CASE e # NoEntry /\ insp' = [insp EXCEPT !.entry = e, !.todo = todo]
  <2>1. insp' \in [pc : {"walk"}, id : {insp.id}, todo : {todo}, entry : {e},
                   gone : {insp.gone}, snap : {insp.snap}, dirty : BOOLEAN]
    BY <1>1, <1>5, ZenonT(60) DEF InspType
  <2>2. /\ insp'.pc = "walk" /\ insp'.todo = todo /\ insp'.gone = insp.gone
        /\ insp'.entry = e /\ insp'.snap = insp.snap
    BY <2>1
  <2>3. insp' \in InspType(insp')
    BY <2>1, <2>2 DEF InspType, InspPcs
  <2>4. insp.gone = NoEntry
    BY <1>1, <1>2 DEF WalkInv
  <2>5. NoReads(rest) /\ Closes(rest) /\ rest # <<>>
    BY <1>1, <1>2, ReadsFirst, ClosesTail DEF WalkInv
  <2>6. ReadPath(w) \in Ops /\ ReadPath(w).op = "read" /\ ReadPath(w).path = w
    BY <1>3 DEF Ops, ReadPath
  <2> HIDE DEF rest
  <2>7. todo \in Seq(Ops) /\ todo # <<>> /\ Head(todo) = ReadPath(w) /\ Tail(todo) = rest
    BY <1>2, <2>6
  <2>13. Closes(todo)
    <3>1. <<ReadPath(w)>> \in Seq(Ops)
      BY <2>6
    <3> QED
      BY <1>2, <2>5, <3>1, ClosesJoin, Zenon
  <2> HIDE DEF todo
  <2>8. \A x : Has(todo, x) <=> x = ReadPath(w) \/ Has(rest, x)
    <3>1. \A x : Has(todo, x) <=> x = Head(todo) \/ Has(Tail(todo), x)
      BY <2>7, HasHead, Zenon
    <3> QED
      BY <2>7, <3>1, Zenon
  <2>9. \A n \in 2 .. Len(todo) : todo[n].op # "read"
    BY <2>5, <2>7, ReadsFirst, ZenonT(60)
  <2>10. ReadInv(insp', w)
    <3>1. e \in Entries /\ Agrees(e, w) => w \in witnessed
      <4>1. Agrees(e, w) => w \in Matching(disk)
        BY <1>3 DEF Agrees, Matching, MatchesIn
      <4> QED
        BY <1>1, <4>1 DEF TreeInv
    <3>2. e \in Entries
      BY <1>3 DEF TreeInv
    <3> QED
      BY <1>5, <2>2, <2>4, <3>1, <3>2 DEF ReadInv
  <2>11. ASSUME NEW p \in Paths \ DOMAIN Tree, Entered(insp', Parent[p]) PROVE Handled(insp', p)
    <3>1. Entered(insp, Parent[p])
      BY <1>2, <1>3, <2>2, <2>8, <2>11, OpNames, SMTT(60) DEF Entered
    <3>2. Handled(insp, p)
      BY <1>1, <3>1 DEF WalkInv
    <3>3. Has(insp.todo, Enter(p)) => Has(todo, Enter(p))
      BY <1>2, <1>3, <2>8, OpNames
    <3>4. Has(insp.todo, OpenPath(p)) => Has(todo, OpenPath(p)) \/ Has(todo, ReadPath(p))
      <4>1. CASE OpenPath(p) = Work
        BY <1>3, <2>8, <4>1, OpNames
      <4>2. CASE OpenPath(p) # Work
        BY <1>2, <2>8, <4>2
      <4> QED
        BY <4>1, <4>2
    <3>5. Has(insp.todo, ReadPath(p)) => Has(todo, ReadPath(p))
      BY <1>2, <1>3, <2>8, OpNames, ZenonT(60)
    <3> QED
      BY <2>2, <3>2, <3>3, <3>4, <3>5, SMTT(60) DEF Handled
  <2>12. WalkInv(insp')
    BY <1>1, <2>2, <2>6, <2>7, <2>9, <2>10, <2>11, <2>13 DEF WalkInv
  <2> QED
    BY <1>1, <2>2, <2>3, <2>12, WalkGoesOn
<1>6. InspFail \/ (e # NoEntry /\ insp' = [insp EXCEPT !.entry = e, !.todo = todo])
  BY <1>2 DEF OpenEntry, ReadPath
<1> QED
  BY <1>4, <1>5, <1>6

(* The entry is read: what goes into the snapshot was at its path at some  *)
(* moment of this inspection.                                              *)
LEMMA ReadEntryStep ==
  ASSUME TreeInv, ReadEntry
  PROVE  TreeInv'
<1> DEFINE w == Work.path
           old == insp.entry
           now == IF insp.gone = NoEntry THEN disk[w] ELSE insp.gone
           rest == Tail(insp.todo)
           Read(data) == SnapAdd(w, [kind |-> old.kind, data |-> data])
<1>1. TreeSame /\ insp.pc = "walk" /\ WalkInv(insp) /\ Work.op = "read" /\ insp \in InspType(insp)
  BY DEF ReadEntry, Doing, TreeInv
<1>2. /\ insp.todo \in Seq(Ops) /\ insp.todo # <<>> /\ Work = Head(insp.todo) /\ rest \in Seq(Ops)
      /\ Work \in Ops
      /\ \A x : Has(insp.todo, x) <=> x = Work \/ Has(rest, x)
  BY <1>1, HasHead DEF WalkInv, Work
<1>3. w \in Blobs /\ Work = ReadPath(w)
  BY <1>1, <1>2, OpFacts
<1>4. CASE InspFail
  BY <1>1, <1>4, InspFailStep
<1>5. ASSUME NEW data \in {old.data, now.data},
             insp' = [insp EXCEPT !.entry = NoEntry, !.gone = NoEntry, !.todo = rest,
                                  !.snap = Read(data)]
      PROVE  TreeInv'
  <2> DEFINE snap == Read(data)
  <2>1. insp' \in [pc : {"walk"}, id : {insp.id}, todo : {rest}, entry : {NoEntry},
                   gone : {NoEntry}, snap : {snap}, dirty : BOOLEAN]
    BY <1>1, <1>5, ZenonT(60) DEF InspType
  <2>2. /\ DOMAIN snap = DOMAIN insp.snap \cup {w}
        /\ \A q \in DOMAIN insp.snap \ {w} : snap[q] = insp.snap[q]
        /\ snap[w] = [kind |-> old.kind, data |-> data]
    BY DEF SnapAdd
  <2> HIDE DEF snap
  <2>3. insp'.pc = "walk" /\ insp'.todo = rest /\ insp'.gone = NoEntry /\ insp'.snap = snap
    BY <2>1
  <2>4. insp' \in InspType(insp')
    BY <2>1, <2>3, ZenonT(60) DEF InspType, InspPcs
  <2>5. NoReads(rest)
    BY <1>1, <1>2, ReadsFirst DEF WalkInv
  <2>6. \A n \in 1 .. Len(rest) : rest[n].op # "read"
    BY <1>2, <2>5, ReadsFirst
  <2>7. rest # <<>> => Head(rest).op # "read"
    BY <1>2, <2>6
  <2>8. snap[w] = Tree[w] /\ w \in DOMAIN Tree => w \in witnessed
    <3>1. ReadInv(insp, w)
      BY <1>1, <1>2 DEF WalkInv
    <3>2. /\ Agrees(old, w) => w \in witnessed
          /\ now.kind = old.kind /\ (Agrees(now, w) => w \in witnessed)
      BY <3>1 DEF ReadInv
    <3> HIDE DEF old, now
    <3> QED
      BY <2>2, <3>2, SMTT(60) DEF Agrees
  <2>9. Closes(rest) /\ rest # <<>>
    BY <1>1, <1>2, ClosesTail DEF WalkInv
  <2> HIDE DEF rest
  <2>10. ASSUME NEW p \in Paths \ DOMAIN Tree, Entered(insp', Parent[p]) PROVE Handled(insp', p)
    <3>1. Parent[p] # w
      BY <1>3, TreeAssumption DEF Blobs, Dirs
    <3>2. Entered(insp, Parent[p])
      BY <1>2, <1>3, <2>2, <2>3, <2>10, <3>1, OpNames DEF Entered
    <3>3. Handled(insp, p)
      BY <1>1, <3>2 DEF WalkInv
    <3>4. Has(insp.todo, ReadPath(p)) => p = w \/ Has(rest, ReadPath(p))
      BY <1>2, <1>3, OpNames
    <3>5. /\ Has(insp.todo, Enter(p)) => Has(rest, Enter(p))
          /\ Has(insp.todo, OpenPath(p)) => Has(rest, OpenPath(p))
      BY <1>2, <1>3, OpNames
    <3> QED
      BY <2>2, <2>3, <3>3, <3>4, <3>5 DEF Handled
  <2>11. WalkInv(insp')
    <3>1. DOMAIN snap \subseteq Paths
      BY <1>1, <1>3, <2>2 DEF WalkInv, Blobs
    <3>2. \A p \in DOMAIN snap \cap DOMAIN Tree : snap[p] = Tree[p] => p \in witnessed
      BY <1>1, <2>2, <2>8 DEF WalkInv
    <3> QED
      BY <1>2, <2>3, <2>6, <2>7, <2>9, <2>10, <3>1, <3>2, SMTT(60) DEF WalkInv
  <2> QED
    BY <1>1, <2>3, <2>4, <2>11, WalkGoesOn
<1> QED
  BY <1>4, <1>5 DEF ReadEntry

(* compareCandidateTree and the walk together: a worktree that passes for  *)
(* clean had at every path, at some moment, what the commit has there.     *)
LEMMA ConcludeStep ==
  ASSUME TreeInv, ConcludeInspection
  PROVE  TreeInv'
<1> DEFINE dirty == CompareCandidateTree(insp.snap)
<1>1. TreeSame /\ insp.pc = "conclude" /\ WalkInv(insp)
  BY DEF ConcludeInspection, TreeInv
<1>2. CASE InspFail
  BY <1>1, <1>2, InspFailStep, ZenonT(60)
<1>3. CASE insp' = [Idle EXCEPT !.pc = "done", !.dirty = dirty, !.snap = insp.snap]
  <2>1. dirty \in BOOLEAN
    BY DEF CompareCandidateTree
  <2>2. ASSUME ~dirty PROVE Blobs \subseteq witnessed
    <3>1. /\ \A p \in DOMAIN Tree : p \in DOMAIN insp.snap /\ insp.snap[p] = Tree[p]
          /\ \A p \in DOMAIN insp.snap : p \notin Directories => p \in DOMAIN Tree
      BY <2>2 DEF CompareCandidateTree
    <3>2. \A x : ~Has(insp.todo, x)
      BY <1>1 DEF WalkInv, Has
    <3> DEFINE S == {d \in Dirs : Entered(insp, d)}
    <3>3. RootDir \in S
      BY <3>2 DEF Entered, Dirs
    <3>4. ASSUME NEW d \in Directories, Parent[d] \in S PROVE d \in S
      <4>1. d \in Paths \ DOMAIN Tree /\ d \notin Blobs /\ d \in Dirs /\ d # RootDir
        BY TreeAssumption DEF Blobs, Dirs
      <4>2. Handled(insp, d)
        BY <1>1, <3>4, <4>1 DEF WalkInv
      <4> QED
        BY <3>2, <4>1, <4>2 DEF Handled, Entered
    <3>5. S = Dirs
      <4> HIDE DEF S
      <4>1. S \in SUBSET Dirs
        BY DEF S
      <4> QED
        BY <3>3, <3>4, <4>1, TreeAssumption
    <3>6. ASSUME NEW p \in Blobs PROVE p \in witnessed
      <4>1. CASE p \in DOMAIN Tree
        BY <1>1, <3>1, <4>1 DEF WalkInv
      <4>2. CASE p \notin DOMAIN Tree
        <5>1. p \in Paths /\ p \notin Directories /\ Parent[p] \in S
          BY <3>5, TreeAssumption DEF Blobs
        <5>2. Handled(insp, p)
          BY <1>1, <4>2, <5>1 DEF WalkInv
        <5> QED
          BY <3>1, <3>2, <4>2, <5>1, <5>2 DEF Handled
      <4> QED
        BY <4>1, <4>2
    <3> QED
      BY <3>6
  <2> HIDE DEF dirty
  <2>3. insp' \in [pc : {"done"}, id : {0}, todo : {<<>>}, entry : {NoEntry}, gone : {NoEntry},
                   snap : {insp.snap}, dirty : {dirty}]
    BY <1>3, ZenonT(60) DEF Idle
  <2>4. insp'.pc = "done" /\ insp'.dirty = dirty
    BY <2>3
  <2>5. (insp \in InspType(insp))'
    BY <2>1, <2>3 DEF InspType, InspPcs
  <2> QED
    BY <1>1, <2>2, <2>4, <2>5, TreeSameFacts DEF TreeInv
<1> QED
  BY <1>2, <1>3 DEF ConcludeInspection

(* Every step of the inspection keeps the invariant of the worktree. *)
LEMMA InspectionStepKeeps ==
  ASSUME Listable, TreeInv, NEW cancelled, InspectionStep(cancelled)
  PROVE  TreeInv'
<1>1. CASE InspectionError
  BY <1>1, InspFailStep DEF InspectionError
<1> QED
  BY <1>1, OpenRepositoryStep, GitIdentityStep, EnterDirectoryStep, LeaveDirectoryStep,
     OpenEntryStep, ReadEntryStep, ConcludeStep DEF InspectionStep
----------------------------------------------------------------------------
(* The editor.                                                             *)

(* An edit that a walk does not notice at once: what it has shown so far   *)
(* stays shown.                                                            *)
LEMMA ContentEdited ==
  ASSUME TreeInv, insp' = insp,
         disk' \in [Blobs -> Entries], dirver' \in [Dirs -> Nat], edits' \in Nat,
         witnessed \cup Matching(disk)' \subseteq witnessed',
         \A q \in Blobs : Reading(q) /\ insp.gone = NoEntry => disk'[q].kind = disk[q].kind
  PROVE  TreeInv'
<1>1. ASSUME insp.pc \in {"walk", "conclude"} PROVE WalkInv(insp)'
  <2>1. WalkInv(insp)
    BY <1>1 DEF TreeInv
  <2>2. ASSUME insp.todo # <<>>, Head(insp.todo).op = "read"
        PROVE  ReadInv(insp, Head(insp.todo).path)'
    <3>0. PICK w : w = Head(insp.todo).path
      BY ZenonT(60)
    <3>1. w \in Blobs /\ Head(insp.todo) = ReadPath(w)
      BY <2>1, <2>2, <3>0, HasHead, OpFacts, ZenonT(60) DEF WalkInv
    <3>2. insp.pc = "walk"
      BY <1>1, <2>1, <2>2, ZenonT(60) DEF WalkInv
    <3>3. Reading(w)
      BY <3>1, <3>2 DEF Reading, ReadPath
    <3>4. ReadInv(insp, w)
      BY <2>1, <2>2, <3>0 DEF WalkInv
    <3>5. Agrees(disk'[w], w) => w \in witnessed'
      BY <3>1 DEF Agrees, Matching, MatchesIn
    <3>7. insp'.entry = insp.entry /\ insp'.gone = insp.gone
      OBVIOUS
    <3>6. ReadInv(insp, w)'
      <4>1. CASE insp.gone = NoEntry
        <5>1. disk'[w] \in Entries /\ disk'[w].kind = insp.entry.kind
          BY <3>1, <3>3, <3>4, <4>1, ZenonT(60) DEF ReadInv
        <5> QED
          BY <3>4, <3>5, <3>7, <4>1, <5>1 DEF ReadInv
      <4>2. CASE insp.gone # NoEntry
        BY <3>4, <3>7, <4>2 DEF ReadInv
      <4> QED
        BY <4>1, <4>2
    <3> QED
      BY <3>0, <3>6, ZenonT(60)
  <2>3. \A p : Handled(insp, p) => Handled(insp, p)'
    BY DEF Handled
  <2>4. \A p : Entered(insp, p)' = Entered(insp, p)
    BY DEF Entered
  <2> QED
    BY <2>1, <2>2, <2>3, <2>4, ZenonT(60) DEF WalkInv
<1>2. (insp \in InspType(insp))'
  BY DEF TreeInv
<1> QED
  BY <1>1, <1>2, SMTT(60) DEF TreeInv

(* A file is written in place. *)
LEMMA EditWriteStep ==
  ASSUME TreeInv, NEW p \in Blobs, EditWrite(p)
  PROVE  TreeInv'
<1>1. /\ disk[p] \in Entries /\ disk[p].kind = "file" /\ edits \in Nat /\ edits' = edits + 1
      /\ disk \in [Blobs -> Entries] /\ dirver' \in [Dirs -> Nat] /\ insp' = insp
      /\ witnessed' = witnessed \cup Matching(disk')
  BY DEF TreeInv, EditWrite, Edited
<1>2. disk[p] \in [kind : Kinds, data : Data, safe : BOOLEAN, ver : Nat]
  BY <1>1 DEF Entries, NoEntry
<1>3. PICK e \in Entries : e.kind = disk[p].kind /\ disk' = [disk EXCEPT ![p] = e]
  <2> DEFINE c == disk[p]
  <2>1. c \in [kind : Kinds, data : Data, safe : BOOLEAN, ver : Nat]
    BY <1>2
  <2>2. ASSUME NEW data \in Data, NEW ver \in Nat,
               disk' = [disk EXCEPT ![p].data = data, ![p].ver = ver]
        PROVE  \E e \in Entries : e.kind = c.kind /\ disk' = [disk EXCEPT ![p] = e]
    <3> DEFINE e == [c EXCEPT !.data = data, !.ver = ver]
    <3>1. disk' = [disk EXCEPT ![p] = e]
      BY <1>1, <2>2, ZenonT(60)
    <3> HIDE DEF c
    <3>2. e \in [kind : Kinds, data : Data, safe : BOOLEAN, ver : Nat]
      BY <2>1, ZenonT(60)
    <3>3. e.kind = c.kind
      BY <2>1
    <3> HIDE DEF e
    <3>4. e \in Entries
      BY <3>2 DEF Entries
    <3> QED
      BY <3>1, <3>3, <3>4, ZenonT(60)
  <2>3. ASSUME disk' = [disk EXCEPT ![p].safe = ~@]
        PROVE  \E e \in Entries : e.kind = c.kind /\ disk' = [disk EXCEPT ![p] = e]
    <3> DEFINE e == [c EXCEPT !.safe = ~@]
    <3>1. disk' = [disk EXCEPT ![p] = e]
      BY <1>1, <2>3
    <3> HIDE DEF c
    <3>2. e \in [kind : Kinds, data : Data, safe : BOOLEAN, ver : Nat]
      BY <2>1, ZenonT(60)
    <3>3. e.kind = c.kind
      BY <2>1
    <3> HIDE DEF e
    <3>4. e \in Entries
      BY <3>2 DEF Entries
    <3> QED
      BY <3>1, <3>3, <3>4, ZenonT(60)
  <2>4. c.ver \in Nat /\ edits' \in Nat
    BY <1>1, <2>1
  <2> QED
    BY <2>2, <2>3, <2>4, ZenonT(60) DEF EditWrite
<1>4. disk' \in [Blobs -> Entries] /\ \A q \in Blobs : disk'[q].kind = disk[q].kind
  BY <1>1, <1>3
<1>5. Matching(disk)' = Matching(disk')
  BY DEF Matching, MatchesIn
<1> QED
  BY <1>1, <1>4, <1>5, ContentEdited

(* A path is removed, made or given to another file. *)
LEMMA EditEntryStep ==
  ASSUME TreeInv, NEW p \in Blobs, EditEntry(p)
  PROVE  TreeInv'
<1>1. PICK new \in {NoEntry} \cup [kind : Kinds, data : Data, safe : {TRUE}, ver : {0}],
           stamp \in BOOLEAN :
        /\ disk' = [disk EXCEPT ![p] = new]
        /\ dirver' = [dirver EXCEPT ![Parent[p]] = IF stamp THEN edits' ELSE @]
  BY ZenonT(60) DEF EditEntry
<1>2. /\ disk \in [Blobs -> Entries] /\ dirver \in [Dirs -> Nat] /\ edits \in Nat
      /\ edits' = edits + 1 /\ witnessed' = witnessed \cup Matching(disk')
      /\ insp \in InspType(insp)
  BY DEF TreeInv, EditEntry, Edited
<1>3. new \in Entries
  <2>1. ASSUME new \in [kind : Kinds, data : Data, safe : {TRUE}, ver : {0}]
        PROVE  new \in [kind : Kinds, data : Data, safe : BOOLEAN, ver : Nat]
    <3>1. 0 \in Nat
      OBVIOUS
    <3> QED
      BY <2>1, <3>1, ZenonT(60)
  <2> QED
    BY <2>1, Zenon DEF Entries
<1>4. /\ disk' \in [Blobs -> Entries] /\ edits' \in Nat
      /\ \A q \in Blobs : q # p => disk'[q] = disk[q]
  BY <1>1, <1>2, <1>3
<1>5. dirver' \in [Dirs -> Nat]
  BY <1>1, <1>2, <1>4, ZenonT(60)
<1>6. Matching(disk)' = Matching(disk')
  BY DEF Matching, MatchesIn
<1>7. CASE ~(Reading(p) /\ insp.gone = NoEntry)
  <2>1. insp' = insp
    BY <1>7 DEF EditEntry
  <2> QED
    BY <1>2, <1>4, <1>5, <1>6, <1>7, <2>1, ContentEdited
<1>8. CASE Reading(p) /\ insp.gone = NoEntry
  <2>1. insp' = [insp EXCEPT !.gone = disk[p]]
    BY <1>8 DEF EditEntry
  <2>2. insp' \in [pc : {insp.pc}, id : {insp.id}, todo : {insp.todo}, entry : {insp.entry},
                   gone : {disk[p]}, snap : {insp.snap}, dirty : BOOLEAN]
    BY <1>2, <2>1, ZenonT(60) DEF InspType
  <2>3. /\ insp'.pc = "walk" /\ insp'.todo = insp.todo /\ insp'.entry = insp.entry
        /\ insp'.gone = disk[p] /\ insp'.snap = insp.snap /\ insp.pc = "walk"
    BY <1>8, <2>2 DEF Reading
  <2>4. (insp \in InspType(insp))'
    BY <2>2, <2>3 DEF InspType, InspPcs
  <2>5. WalkInv(insp) /\ Matching(disk) \subseteq witnessed
    BY <2>3, ZenonT(60) DEF TreeInv
  <2>6. Head(insp.todo) = ReadPath(p) /\ Head(insp.todo).op = "read" /\ Head(insp.todo).path = p
        /\ insp.todo # <<>>
    <3>1. Head(insp.todo) = ReadPath(p)
      BY <1>8, ZenonT(60) DEF Reading, ReadPath
    <3>2. insp.todo # <<>>
      BY <2>3, <2>5, ZenonT(60) DEF WalkInv
    <3> QED
      BY <3>1, <3>2, SMTT(60) DEF ReadPath
  <2>7. ReadInv(insp, p)
    BY <2>5, <2>6 DEF WalkInv
  <2>8. disk[p] # NoEntry
    BY <1>8, <2>7, EntryFacts DEF ReadInv, Kinds
  <2>9. ReadInv(insp, p)'
    BY <1>2, <1>8, <2>3, <2>7, <2>8, ZenonT(60) DEF ReadInv, Agrees
  <2>10. \A q : Handled(insp, q) => Handled(insp, q)'
    BY <1>2, <2>3, ZenonT(60) DEF Handled
  <2>11. \A q : Entered(insp, q)' = Entered(insp, q)
    BY <2>3, ZenonT(60) DEF Entered
  <2>12. WalkInv(insp)'
    BY <1>2, <2>3, <2>5, <2>6, <2>9, <2>10, <2>11, ZenonT(60) DEF WalkInv
  <2> QED
    BY <1>2, <1>4, <1>5, <1>6, <2>3, <2>4, <2>12 DEF TreeInv
<1> QED
  BY <1>7, <1>8

(* Every edit of the worktree keeps the invariant. *)
LEMMA EditorStep ==
  ASSUME TreeInv, Editor
  PROVE  TreeInv'
<1>1. CASE EditRepository
  <2>1. /\ disk' = disk /\ dirver' = dirver /\ insp' = insp /\ witnessed' = witnessed
        /\ edits' \in Nat
    BY <1>1 DEF EditRepository, Edited, TreeInv
  <2>2. Matching(disk)' = Matching(disk)
    BY <2>1 DEF Matching, MatchesIn
  <2>3. CASE insp.pc = "idle"
    BY <2>1, <2>3, SMTT(60) DEF TreeInv, InspType
  <2>4. CASE insp.pc # "idle"
    BY <2>1, <2>2, <2>4, ContentEdited, ZenonT(60) DEF TreeInv
  <2> QED
    BY <2>3, <2>4
<1> QED
  BY <1>1, EditWriteStep, EditEntryStep DEF Editor

(* The worktree that was checked out satisfies the invariant. *)
LEMMA TreeInitially == TreeInit => TreeInv
<1> SUFFICES ASSUME TreeInit PROVE TreeInv
  OBVIOUS
<1>1. ASSUME NEW p \in Blobs PROVE Checkout[p] \in Entries
  BY TreeAssumption DEF Checkout, Entries
<1>2. disk \in [Blobs -> Entries] /\ dirver \in [Dirs -> Nat] /\ edits \in Nat /\ insp = Idle
  BY <1>1 DEF TreeInit, Checkout
<1>3. insp \in InspType(insp) /\ insp.pc = "idle"
  BY <1>2 DEF Idle, InspType, InspPcs
<1> QED
  BY <1>2, <1>3 DEF TreeInv

(* An inspection begins, and has shown what matches now. *)
LEMMA BeginInspectionStep ==
  ASSUME TreeInv, BeginInspection
  PROVE  TreeInv'
<1>1. Matching(disk)' = witnessed'
  BY ZenonT(60) DEF BeginInspection, Matching, MatchesIn
<1> QED
  BY <1>1, InspReset DEF BeginInspection, TreeInv

(* After an inspection nothing is remembered of it but its result. *)
LEMMA InspectionEnds ==
  ASSUME TreeInv, insp' = Idle, ForgetVersions, edits' = edits
  PROVE  TreeInv'
<1>1. (insp \in InspType(insp) /\ insp.pc = "idle")'
  BY DEF Idle, InspType, InspPcs
<1>2. ASSUME NEW p \in Blobs, disk[p] # NoEntry PROVE [disk[p] EXCEPT !.ver = 0] \in Entries
  <2> DEFINE c == disk[p]
  <2>1. c \in [kind : Kinds, data : Data, safe : BOOLEAN, ver : Nat]
    BY <1>2 DEF TreeInv, Entries
  <2> HIDE DEF c
  <2>2. [c EXCEPT !.ver = 0] \in [kind : Kinds, data : Data, safe : BOOLEAN, ver : Nat]
    BY <2>1, ZenonT(60)
  <2> QED
    BY <2>2, ZenonT(60) DEF c, Entries
<1>3. disk' \in [Blobs -> Entries]
  BY <1>2 DEF ForgetVersions, Entries
<1>4. dirver' \in [Dirs -> Nat] /\ edits' \in Nat
  BY SMTT(60) DEF ForgetVersions, TreeInv
<1> QED
  BY <1>1, <1>3, <1>4 DEF TreeInv
----------------------------------------------------------------------------
(* The stages.                                                             *)

(* The stages one by one, and the set of them. *)
LEMMA Named ==
  /\ Stages[1] = "input" /\ Stages[2] = "inspect" /\ Stages[3] = "runner" /\ Stages[4] = "root"
  /\ Stages[5] = "open_candidate" /\ Stages[6] = "seal_candidate" /\ Stages[7] = "open_rollback"
  /\ Stages[8] = "seal_rollback" /\ Stages[9] = "digests" /\ Stages[10] = "version_candidate"
  /\ Stages[11] = "version_rollback" /\ Stages[12] = "buildinfo" /\ Stages[13] = "secrets"
  /\ Stages[14] = "provider" /\ Stages[15] = "store" /\ Stages[16] = "configs"
  /\ Stages[17] = "dry_run" /\ Stages[18] = "apply" /\ Stages[19] = "backup"
  /\ Stages[20] = "verify" /\ Stages[21] = "revocation_init" /\ Stages[22] = "issue"
  /\ Stages[23] = "token" /\ Stages[24] = "start_candidate" /\ Stages[25] = "health_candidate"
  /\ Stages[26] = "reject_candidate" /\ Stages[27] = "accept_candidate"
  /\ Stages[28] = "stop_candidate" /\ Stages[29] = "restore_store"
  /\ Stages[30] = "restore_config" /\ Stages[31] = "restored" /\ Stages[32] = "start_rollback"
  /\ Stages[33] = "health_rollback" /\ Stages[34] = "reject_rollback"
  /\ Stages[35] = "accept_rollback" /\ Stages[36] = "stop_rollback" /\ Stages[37] = "resealed"
  /\ Stages[38] = "reinspect" /\ Stages[39] = "runner_again" /\ Stages[40] = "cleanup"
  /\ Stages[41] = "publish"
BY ZenonT(60) DEF Stages

(* There are 41 stages. *)
LEMMA StageDomain == DOMAIN Stages = 1 .. 41
BY DEF Stages

(* No stage comes twice. *)
LEMMA Distinct == \A i, j \in 1 .. 41 : Stages[i] = Stages[j] => i = j
BY Named, SMTT(60)

(* The place of a stage is the one at which it is listed. *)
LEMMA PlaceOf ==
  ASSUME NEW i \in 1 .. 41
  PROVE  Stages[i] \in StageNames /\ Place(Stages[i]) = i
BY StageDomain, Distinct, SMTT(60) DEF Place, StageNames

(* The place of each stage. *)
LEMMA Places ==
  /\ Place("input") = 1 /\ Place("inspect") = 2 /\ Place("runner") = 3 /\ Place("root") = 4
  /\ Place("open_candidate") = 5 /\ Place("seal_candidate") = 6 /\ Place("open_rollback") = 7
  /\ Place("seal_rollback") = 8 /\ Place("digests") = 9 /\ Place("version_candidate") = 10
  /\ Place("version_rollback") = 11 /\ Place("buildinfo") = 12 /\ Place("secrets") = 13
  /\ Place("provider") = 14 /\ Place("store") = 15 /\ Place("configs") = 16
  /\ Place("dry_run") = 17 /\ Place("apply") = 18 /\ Place("backup") = 19
  /\ Place("verify") = 20 /\ Place("revocation_init") = 21 /\ Place("issue") = 22
  /\ Place("token") = 23 /\ Place("start_candidate") = 24 /\ Place("health_candidate") = 25
  /\ Place("reject_candidate") = 26 /\ Place("accept_candidate") = 27
  /\ Place("stop_candidate") = 28 /\ Place("restore_store") = 29 /\ Place("restore_config") = 30
  /\ Place("restored") = 31 /\ Place("start_rollback") = 32 /\ Place("health_rollback") = 33
  /\ Place("reject_rollback") = 34 /\ Place("accept_rollback") = 35
  /\ Place("stop_rollback") = 36 /\ Place("resealed") = 37 /\ Place("reinspect") = 38
  /\ Place("runner_again") = 39 /\ Place("cleanup") = 40 /\ Place("publish") = 41
BY PlaceOf, Named

(* The names of the stages, which "unwind" and "exited" are not among. *)
LEMMA AreStages ==
  /\ {"input", "inspect", "runner", "root", "open_candidate", "seal_candidate",
      "open_rollback", "seal_rollback", "digests", "version_candidate", "version_rollback",
      "buildinfo", "secrets", "provider", "store", "configs", "dry_run", "apply", "backup",
      "verify", "revocation_init", "issue", "token", "start_candidate", "health_candidate",
      "reject_candidate", "accept_candidate", "stop_candidate", "restore_store",
      "restore_config", "restored", "start_rollback", "health_rollback", "reject_rollback",
      "accept_rollback", "stop_rollback", "resealed", "reinspect", "runner_again",
      "cleanup", "publish"} \subseteq StageNames
  /\ "unwind" \notin StageNames /\ "exited" \notin StageNames
<1>1. "unwind" \notin StageNames /\ "exited" \notin StageNames
  BY StageDomain, Named DEF StageNames
<1> QED
  BY <1>1, PlaceOf, Named, SMTT(60)

(* A stage other than the last is followed by the one in the next place. *)
LEMMA Order ==
  ASSUME NEW s \in StageNames
  PROVE  /\ Place(s) \in 1 .. 41 /\ Stages[Place(s)] = s
         /\ s # "publish" => /\ After(s) \in StageNames /\ Place(After(s)) = Place(s) + 1
                             /\ After(s) = Stages[Place(s) + 1] /\ Place(s) < 41
<1>1. Place(s) \in 1 .. 41 /\ Stages[Place(s)] = s
  BY StageDomain, ZenonT(60) DEF Place, StageNames
<1>2. ASSUME s # "publish"
      PROVE  /\ After(s) \in StageNames /\ Place(After(s)) = Place(s) + 1
             /\ After(s) = Stages[Place(s) + 1] /\ Place(s) < 41
  <2>1. Place(s) < 41
    BY <1>1, <1>2, Named
  <2>2. Place(s) + 1 \in 1 .. 41 /\ 1 + Place(s) = Place(s) + 1
    BY <1>1, <2>1
  <2>3. After(s) = Stages[Place(s) + 1]
    BY <2>2, Zenon DEF After, Place
  <2> QED
    BY <2>1, <2>2, <2>3, PlaceOf, SMTT(60)
<1> QED
  BY <1>1, <1>2, SMTT(60)

(* A stage ends: the drill goes on to the next or unwinds. *)
Moved == pc \in StageNames \ {"publish"} /\ (Proceed \/ Fail)

(* A stage ends in the next one, or in the unwinding with a failure. *)
LEMMA Moves ==
  ASSUME DrillType, SummaryInv, Moved
  PROVE  /\ \/ pc' = "unwind"
            \/ /\ pc' \in StageNames /\ out' = out
               /\ Place(pc') = Place(pc) + 1 /\ pc' = Stages[Place(pc) + 1]
         /\ Place(pc) \in 1 .. 40 /\ pc = Stages[Place(pc)]
         /\ pc' \in StageNames \cup {"unwind", "exited"} /\ out' \in OutType
         /\ out'.class = "none"
<1>1. out = [class |-> "none", exit |-> "none"]
  BY DEF Moved, SummaryInv
<1>2. Place(pc) \in 1 .. 40 /\ pc = Stages[Place(pc)]
  BY Order DEF Moved
<1>3. CASE Proceed
  <2>1. out' = out /\ pc' = After(pc)
    BY <1>3 DEF Proceed
  <2>2. pc' \in StageNames /\ Place(pc') = Place(pc) + 1 /\ pc' = Stages[Place(pc) + 1]
    BY <2>1, Order DEF Moved
  <2>3. out' \in OutType /\ out'.class = "none"
    BY <1>1, <2>1 DEF OutType
  <2> QED
    BY <1>2, <2>1, <2>2, <2>3
<1>4. CASE Fail
  <2>1. pc' = "unwind" /\ out' = [out EXCEPT !.exit = "1"]
    BY <1>4 DEF Fail
  <2>2. out' \in OutType /\ out'.class = "none"
    <3>1. out' = [class |-> "none", exit |-> "1"]
      BY <1>1, <2>1
    <3> QED
      BY <3>1 DEF OutType
  <2> QED
    BY <1>2, <2>1, <2>2
<1> QED
  BY <1>3, <1>4 DEF Moved

(* What a stage leaves in place, invariant by invariant. *)
LEMMA RootStep ==
  ASSUME IInv, Moved, pc \notin {"root", "cleanup"}, tmp'.root = tmp.root
  PROVE  RootInv'
<1>1. CASE pc' = "unwind"
  BY <1>1, AreStages DEF RootInv, Past
<1>2. CASE pc' # "unwind"
  <2>1. /\ Place(pc') = Place(pc) + 1 /\ pc' = Stages[Place(pc) + 1]
        /\ Place(pc) \in 1 .. 40 /\ pc = Stages[Place(pc)]
    BY <1>2, Moves, ZenonT(60) DEF IInv
  <2>2. Stages[4] = "root" /\ Stages[40] = "cleanup" /\ Place("root") = 4 /\ Place("publish") = 41
    BY Named, Places
  <2>3. Place(pc) \notin {4, 40}
    BY <2>1, <2>2
  <2>4. pc' # "publish"
    BY <2>1, <2>2, <2>3
  <2>5. Past("root")' => Past("root") /\ pc # "publish"
    BY <2>1, <2>2, <2>3 DEF Past, Moved
  <2> QED
    BY <2>4, <2>5 DEF IInv, RootInv
<1> QED
  BY <1>1, <1>2

(* The copies stay as they are through a stage that neither makes nor      *)
(* checks them.                                                            *)
LEMMA SealedStep ==
  ASSUME IInv, Moved, pc \notin {"seal_candidate", "open_rollback", "seal_rollback", "digests"},
         mem'.sealed = mem.sealed, hist'.ran \subseteq {"locked"},
         Has(mem.deferred, "snapshots") => Has(mem'.deferred, "snapshots")
  PROVE  SealedInv'
<1>1. NoCopies' \/ Has(mem'.deferred, "snapshots")
  BY DEF IInv, SealedInv, NoCopies
<1>2. CASE pc' = "unwind"
  BY <1>1, <1>2, AreStages, SMTT(60) DEF SealedInv, Past
<1>3. CASE pc' # "unwind"
  <2>1. /\ Place(pc') = Place(pc) + 1 /\ Place(pc) \in 1 .. 40 /\ pc = Stages[Place(pc)]
        /\ pc' # "exited"
    BY <1>3, Moves, AreStages, ZenonT(60) DEF IInv
  <2>2. Stages[9] = "digests" /\ Place("digests") = 9
    BY Named, Places
  <2>3. Past("digests")' => Past("digests")
    BY <2>1, <2>2 DEF Past, Moved
  <2> QED
    BY <1>1, <2>1, <2>3, SMTT(60) DEF IInv, SealedInv
<1> QED
  BY <1>2, <1>3

(* What is recorded of the store and of the configuration stays. *)
LEMMA StoreStep ==
  ASSUME IInv, Moved, pc \notin {"store", "configs", "restored"},
         mem'.store = mem.store, mem'.config = mem.config
  PROVE  StoreInv'
<1>1. CASE pc' = "unwind"
  BY <1>1, AreStages DEF StoreInv, Past
<1>2. CASE pc' # "unwind"
  <2>1. Place(pc') = Place(pc) + 1 /\ Place(pc) \in 1 .. 40 /\ pc = Stages[Place(pc)]
    BY <1>2, Moves, ZenonT(60) DEF IInv
  <2>2. /\ Stages[15] = "store" /\ Place("store") = 15 /\ Stages[16] = "configs"
        /\ Place("configs") = 16 /\ Stages[31] = "restored" /\ Place("start_rollback") = 32
    BY Named, Places
  <2>3. Place(pc) \notin {15, 16, 31}
    BY <2>1, <2>2
  <2>4. pc' # "start_rollback"
    BY <2>1, <2>2, <2>3
  <2>5. (Past("store")' => Past("store")) /\ (Past("configs")' => Past("configs"))
    BY <2>1, <2>2, <2>3 DEF Past, Moved
  <2> QED
    BY <2>4, <2>5 DEF IInv, StoreInv
<1> QED
  BY <1>1, <1>2

(* A stage that serves a request records it; no other has to. *)
LEMMA SummaryStep ==
  ASSUME IInv, Moved, hist.passed \subseteq hist'.passed,
         pc = "accept_candidate" /\ pc' # "unwind" => "candidate" \in hist'.passed,
         pc = "accept_rollback" /\ pc' # "unwind" => "rollback" \in hist'.passed
  PROVE  SummaryInv'
<1>1. out'.class = "none"
  BY Moves DEF IInv
<1>2. CASE pc' = "unwind"
  BY <1>1, <1>2, AreStages DEF SummaryInv, Past
<1>3. CASE pc' # "unwind"
  <2>1. /\ Place(pc') = Place(pc) + 1 /\ Place(pc) \in 1 .. 40 /\ pc = Stages[Place(pc)]
        /\ out' = out
    BY <1>3, Moves, ZenonT(60) DEF IInv
  <2>2. /\ Stages[27] = "accept_candidate" /\ Place("accept_candidate") = 27
        /\ Stages[35] = "accept_rollback" /\ Place("accept_rollback") = 35
    BY Named, Places
  <2>3. /\ Past("accept_candidate")' => Past("accept_candidate") \/ pc = "accept_candidate"
        /\ Past("accept_rollback")' => Past("accept_rollback") \/ pc = "accept_rollback"
    BY <2>1, <2>2 DEF Past, Moved
  <2>4. out' = [class |-> "none", exit |-> "none"]
    BY <2>1 DEF IInv, SummaryInv, Moved
  <2>5. /\ Past("accept_candidate")' => "candidate" \in hist'.passed
        /\ Past("accept_rollback")' => "rollback" \in hist'.passed
    BY <1>3, <2>3 DEF IInv, SummaryInv
  <2> QED
    BY <1>1, <2>4, <2>5 DEF SummaryInv
<1> QED
  BY <1>2, <1>3

(* What the inspections have shown stays. *)
LEMMA CleanStep ==
  ASSUME IInv, Moved, pc \notin {"inspect", "reinspect"}, insp' = insp,
         hist'.clean = hist.clean, mem'.dirty = mem.dirty
  PROVE  CleanInv' /\ FinalMeansClean'
<1>1. out'.class = "none" /\ insp'.pc = "idle"
  BY Moves DEF IInv, CleanInv
<1>2. CASE pc' = "unwind"
  BY <1>1, <1>2, AreStages, SMTT(60) DEF CleanInv, Past, FinalMeansClean
<1>3. CASE pc' # "unwind"
  <2>1. Place(pc') = Place(pc) + 1 /\ Place(pc) \in 1 .. 40 /\ pc = Stages[Place(pc)]
    BY <1>3, Moves, ZenonT(60) DEF IInv
  <2>2. /\ Stages[1] = "input" /\ Place("input") = 1 /\ Stages[2] = "inspect" /\ Place("inspect") = 2
        /\ Stages[38] = "reinspect" /\ Place("reinspect") = 38
    BY Named, Places
  <2>3. Place(pc) \notin {2, 38}
    BY <2>1, <2>2
  <2>4. pc' \in {"input", "inspect"} => pc = "input"
    BY <2>1, <2>2, SMTT(60)
  <2>5. /\ Past("inspect")' => Past("inspect")
        /\ Past("reinspect") = Past("reinspect")'
    BY <1>3, <2>1, <2>2, <2>3, Moves DEF Past, Moved, IInv
  <2> QED
    BY <1>1, <2>4, <2>5 DEF IInv, CleanInv, FinalMeansClean
<1> QED
  BY <1>2, <1>3, SMTT(60)

(* Outside the stages that run a child or a gateway there is no process. *)
LEMMA NoProcess ==
  ASSUME IInv, pc \notin ChildStages \cup GatewayStages \cup {"unwind"}
  PROVE  group = NoGroup
BY DEF IInv, GroupInv

(* With no process there is nothing to stop. *)
LEMMA NoGroupKept ==
  ASSUME group' = NoGroup
  PROVE  GroupInv' /\ group' \in GroupType
BY DEF GroupInv, NoGroup, GroupType, Binaries

(* The memory of run, but for what is recorded on the way. *)
MemKept ==
  /\ (mem \in MemType)'
  /\ mem'.sealed = mem.sealed /\ mem'.store = mem.store /\ mem'.config = mem.config
  /\ mem'.dirty = mem.dirty
  /\ Has(mem.deferred, "snapshots") => Has(mem'.deferred, "snapshots")

(* The memory of run as it was. *)
LEMMA MemSame ==
  ASSUME DrillType, mem' = mem
  PROVE  MemKept
BY DEF MemKept, DrillType, MemType

(* Deferring a call. *)
LEMMA DeferredFirst ==
  ASSUME NEW S, NEW s \in Seq(S), NEW d \in S
  PROVE  /\ <<d>> \o s \in Seq(S) /\ <<d>> \o s # <<>> /\ Head(<<d>> \o s) = d
         /\ Has(<<d>> \o s, d)
         /\ \A x : Has(s, x) => Has(<<d>> \o s, x)
<1> DEFINE t == <<d>> \o s
<1>1. t \in Seq(S) /\ t # <<>> /\ Head(t) = d /\ Tail(t) = s
  OBVIOUS
<1> HIDE DEF t
<1>2. \A x : Has(t, x) <=> x = d \/ Has(s, x)
  <2>1. \A x : Has(t, x) <=> x = Head(t) \/ Has(Tail(t), x)
    BY <1>1, HasHead, Zenon
  <2> QED
    BY <1>1, <2>1, Zenon
<1> QED
  BY <1>1, <1>2, Zenon DEF t

(* A deferred call comes first, and the others stay. *)
LEMMA DeferringKeeps ==
  ASSUME DrillType, NEW d \in Deferrals, mem' = [mem EXCEPT !.deferred = Deferred(d)]
  PROVE  /\ MemKept
         /\ mem'.deferred # <<>> /\ Head(mem'.deferred) = d
<1> DEFINE t == Deferred(d)
<1>1. mem \in MemType /\ mem.deferred \in Seq(Deferrals)
  BY DEF DrillType, MemType
<1>2. /\ t \in Seq(Deferrals) /\ t # <<>> /\ Head(t) = d
      /\ \A x : Has(mem.deferred, x) => Has(t, x)
  BY <1>1, DeferredFirst DEF Deferred
<1> HIDE DEF t
<1>3. mem' = [mem EXCEPT !.deferred = t]
  BY DEF t
<1>4. mem' \in [deferred : {t}, dirty : {mem.dirty}, snap : {mem.snap}, copy : AnyInput,
                sealed : {mem.sealed}, store : {mem.store}, backup : Contents,
                config : {mem.config}]
  BY <1>1, <1>3, ZenonT(60) DEF MemType
<1>5. /\ mem'.deferred = t /\ mem'.dirty = mem.dirty /\ mem'.snap = mem.snap
      /\ mem'.sealed = mem.sealed /\ mem'.store = mem.store /\ mem'.config = mem.config
  BY <1>4
<1>6. (mem \in MemType)'
  BY <1>1, <1>2, <1>4, <1>5, SMTT(60) DEF MemType
<1> QED
  BY <1>2, <1>5, <1>6 DEF MemKept

(* The stages at which the drill does nothing that a later one relies on. *)
Quiet ==
  pc \notin {"inspect", "root", "seal_candidate", "open_rollback", "seal_rollback", "digests",
             "store", "configs", "restored", "reinspect", "cleanup",
             "accept_candidate", "accept_rollback"} \cup ChildStages \cup GatewayStages

(* Such a stage keeps the invariant. *)
LEMMA QuietStep ==
  ASSUME IInv, Moved, Quiet, StageSame, ProcessesSame, MemKept,
         tmp' \in TmpType, tmp'.root = tmp.root
  PROVE  IInv'
<1>1. treeVars' = treeVars /\ env' = env /\ hist' = hist /\ group' = group /\ insp' = insp
  BY DEF StageSame, ProcessesSame, treeVars
<1>2. TreeInv'
  BY <1>1, TreeUnchanged DEF IInv
<1>3. pc # "unwind"
  BY AreStages DEF Moved
<1>4. group' = NoGroup
  BY <1>1, <1>3, NoProcess, SMTT(60) DEF Quiet
<1>5. DrillType'
  BY <1>1, <1>4, Moves, NoGroupKept, ZenonT(60)
  DEF IInv, DrillType, MemKept, EnvType, HistType, TmpType, GroupType
<1>6. RootInv'
  BY RootStep, SMTT(60) DEF Quiet
<1>7. SealedInv'
  BY <1>1, SealedStep, ZenonT(60) DEF Quiet, MemKept, IInv, SealedInv
<1>8. StoreInv'
  BY StoreStep DEF Quiet, MemKept
<1>9. SummaryInv'
  BY <1>1, SummaryStep DEF Quiet
<1>10. CleanInv' /\ FinalMeansClean'
  BY <1>1, CleanStep DEF Quiet, MemKept
<1> QED
  BY <1>2, <1>4, <1>5, <1>6, <1>7, <1>8, <1>9, <1>10, NoGroupKept, SMTT(60) DEF IInv

(* The stages that have an effect of their own elsewhere. *)
LEMMA QuietStages ==
  ASSUME pc \in {"input", "runner", "open_candidate", "buildinfo", "secrets", "provider", "backup",
                 "token", "restore_store", "restore_config", "resealed", "runner_again"}
  PROVE  Quiet /\ pc \in StageNames \ {"publish"}
<1>1. Quiet
  BY DEF Quiet, ChildStages, GatewayStages
<1>2. pc \in StageNames
  BY AreStages
<1> QED
  BY <1>1, <1>2

(* The stages that only look. *)
LEMMA ExamineStep ==
  ASSUME IInv, NEW stage \in {"input", "buildinfo", "resealed", "runner_again"}, Examine(stage)
  PROVE  IInv'
<1>1. Moved /\ Quiet
  BY QuietStages DEF Examine, Moved
<1>2. MemKept /\ tmp' \in TmpType /\ tmp'.root = tmp.root
  BY MemSame DEF Examine, IInv, DrillType
<1> QED
  BY <1>1, <1>2, QuietStep DEF Examine

(* The stages that open something to be closed at the end. *)
LEMMA AcquireStep ==
  ASSUME IInv, NEW stage \in {"runner", "secrets", "provider", "token"},
         Acquire(stage) \/ (stage = "provider" /\ StartProvider)
  PROVE  IInv'
<1>1. /\ pc = stage /\ (Proceed \/ Fail) /\ StageSame /\ ProcessesSame /\ tmp' = tmp
      /\ mem' = mem \/ mem' = [mem EXCEPT !.deferred = Deferred(stage)]
  BY DEF Acquire, StartProvider
<1>2. Moved /\ Quiet
  BY <1>1, QuietStages DEF Moved
<1>3. MemKept
  <2>1. stage \in Deferrals
    BY DEF Deferrals
  <2>2. CASE mem' = mem
    BY <2>2, MemSame DEF IInv
  <2>3. CASE mem' = [mem EXCEPT !.deferred = Deferred(stage)]
    BY <2>1, <2>3, DeferringKeeps, Zenon DEF IInv
  <2> QED
    BY <1>1, <2>2, <2>3
<1> QED
  BY <1>1, <1>2, <1>3, QuietStep DEF IInv, DrillType

(* The backup is compared with the store and recorded. *)
LEMMA CheckBackupStep ==
  ASSUME IInv, CheckBackup
  PROVE  IInv'
<1>1. Moved /\ Quiet
  BY QuietStages DEF CheckBackup, ReadAndProceedIf, Moved
<1>2. mem \in MemType /\ tmp.files["backup"] \in Contents
  BY DEF IInv, DrillType, TmpType, Files
<1>3. mem' \in [deferred : {mem.deferred}, dirty : {mem.dirty}, snap : {mem.snap}, copy : AnyInput,
                sealed : {mem.sealed}, store : {mem.store}, backup : Contents,
                config : {mem.config}]
  BY <1>2, ZenonT(60) DEF CheckBackup, MemType
<1>4. /\ mem'.deferred = mem.deferred /\ mem'.dirty = mem.dirty /\ mem'.snap = mem.snap
      /\ mem'.sealed = mem.sealed /\ mem'.store = mem.store /\ mem'.config = mem.config
  BY <1>3
<1>5. (mem \in MemType)'
  BY <1>2, <1>3, <1>4 DEF MemType
<1>6. MemKept
  BY <1>4, <1>5 DEF MemKept
<1> QED
  BY <1>1, <1>6, QuietStep DEF CheckBackup, IInv, DrillType

(* A file of the temporary directory is written. *)
LEMMA FileWritten ==
  ASSUME tmp \in TmpType, NEW f \in Files, NEW c \in Contents,
         tmp' = [tmp EXCEPT !.files[f] = c]
  PROVE  tmp' \in TmpType /\ tmp'.root = tmp.root /\ tmp'.files[f] = c
<1> DEFINE g == [tmp.files EXCEPT ![f] = c]
<1>1. g \in [Files -> Contents] /\ g[f] = c
  BY DEF TmpType
<1> HIDE DEF g
<1>2. tmp' = [tmp EXCEPT !.files = g]
  BY DEF g, TmpType
<1>3. tmp' \in [root : {tmp.root}, files : {g}, writes : Nat]
  BY <1>2, ZenonT(60) DEF TmpType
<1>4. tmp'.root = tmp.root /\ tmp'.files = g
  BY <1>3
<1> QED
  BY <1>1, <1>3, <1>4 DEF TmpType

(* The backup and the old configuration are restored. *)
LEMMA RestoreStep ==
  ASSUME IInv, RestoreStore \/ RestoreConfig
  PROVE  IInv'
<1>1. Moved /\ Quiet
  BY QuietStages DEF RestoreStore, RestoreConfig, Moved
<1>2. tmp \in TmpType /\ tmp.files["backup"] \in Contents /\ tmp.files["oldconfig"] \in Contents
  BY DEF IInv, DrillType, TmpType, Files
<1>3. tmp' \in TmpType /\ tmp'.root = tmp.root
  BY <1>2, FileWritten DEF RestoreStore, RestoreConfig, Files
<1>4. MemKept /\ StageSame /\ ProcessesSame
  BY MemSame, SMTT(60) DEF RestoreStore, RestoreConfig, IInv
<1> QED
  BY <1>1, <1>3, <1>4, QuietStep

(* A stage without a process. *)
LEMMA AloneStep ==
  ASSUME IInv, Moved, pc \notin {"inspect", "reinspect"} \cup ChildStages \cup GatewayStages,
         StageSame, ProcessesSame, (mem \in MemType)', mem'.dirty = mem.dirty, tmp' \in TmpType,
         RootInv', SealedInv', StoreInv'
  PROVE  IInv'
<1>1. treeVars' = treeVars /\ env' = env /\ hist' = hist /\ group' = group /\ insp' = insp
  BY DEF StageSame, ProcessesSame, treeVars
<1>2. TreeInv'
  BY <1>1, TreeUnchanged, SMTT(60) DEF IInv
<1>3. pc \notin {"unwind", "accept_candidate", "accept_rollback"}
  BY AreStages DEF Moved, GatewayStages
<1>4. group' = NoGroup
  BY <1>1, <1>3, NoProcess, SMTT(60)
<1>5. DrillType'
  BY <1>1, <1>4, Moves, NoGroupKept, ZenonT(60)
  DEF IInv, DrillType, EnvType, HistType, TmpType, GroupType
<1>6. SummaryInv'
  BY <1>1, <1>3, SummaryStep, SMTT(60)
<1>7. CleanInv' /\ FinalMeansClean'
  BY <1>1, CleanStep
<1> QED
  BY <1>2, <1>4, <1>5, <1>6, <1>7, NoGroupKept, ZenonT(60) DEF IInv

(* They run neither a child nor a gateway nor an inspection. *)
LEMMA AloneStages ==
  ASSUME pc \in {"root", "open_candidate", "seal_candidate", "open_rollback", "seal_rollback",
                 "digests", "store", "configs", "restored", "cleanup"}
  PROVE  /\ pc \in StageNames \ {"publish"}
         /\ pc \notin {"inspect", "reinspect"} \cup ChildStages \cup GatewayStages
<1>1. pc \notin {"inspect", "reinspect"} \cup ChildStages \cup GatewayStages
  BY DEF ChildStages, GatewayStages
<1>2. pc \in StageNames
  BY AreStages
<1> QED
  BY <1>1, <1>2

(* The temporary directory is made. *)
LEMMA MakeRootStep ==
  ASSUME IInv, MakeRoot
  PROVE  IInv'
<1>1. /\ pc = "root" /\ (Proceed \/ Fail) /\ StageSame /\ ProcessesSame
      /\ \/ Fail /\ mem' = mem /\ tmp' = tmp
         \/ mem' = [mem EXCEPT !.deferred = Deferred("root")] /\ tmp' = [tmp EXCEPT !.root = TRUE]
  BY DEF MakeRoot
<1>2. Moved /\ pc \notin {"inspect", "reinspect"} \cup ChildStages \cup GatewayStages
  BY <1>1, AloneStages DEF Moved
<1>3. MemKept
  <2>1. "root" \in Deferrals
    BY DEF Deferrals
  <2>2. CASE mem' = mem
    BY <2>2, MemSame DEF IInv
  <2>3. CASE mem' = [mem EXCEPT !.deferred = Deferred("root")]
    BY <2>1, <2>3, DeferringKeeps, Zenon DEF IInv
  <2> QED
    BY <1>1, <2>2, <2>3
<1>4. tmp' \in TmpType /\ (pc' # "unwind" => tmp'.root)
  <2>1. tmp \in TmpType
    BY DEF IInv, DrillType
  <2>2. CASE tmp' = tmp /\ Fail
    BY <2>1, <2>2 DEF Fail
  <2>3. CASE tmp' = [tmp EXCEPT !.root = TRUE]
    <3>1. tmp' \in TmpType
      BY <2>1, <2>3, ZenonT(60) DEF TmpType
    <3> QED
      BY <2>1, <2>3, <3>1 DEF TmpType
  <2> QED
    BY <1>1, <2>2, <2>3
<1>5. RootInv'
  <2>1. CASE pc' = "unwind"
    BY <2>1, AreStages DEF RootInv, Past
  <2>2. CASE pc' # "unwind"
    <3>1. Place(pc') = 5
      BY <1>1, <1>2, <2>2, Moves, Places, SMTT(60) DEF IInv
    <3>2. pc' # "publish"
      BY <3>1, Places
    <3> QED
      BY <1>4, <2>2, <3>2 DEF RootInv
  <2> QED
    BY <2>1, <2>2
<1>6. SealedInv'
  BY <1>1, <1>2, <1>3, SealedStep DEF MemKept, StageSame, IInv, SealedInv
<1>7. StoreInv'
  BY <1>1, <1>2, <1>3, StoreStep, SMTT(60) DEF MemKept
<1> QED
  BY <1>1, <1>2, <1>3, <1>4, <1>5, <1>6, <1>7, AloneStep, SMTT(60) DEF MemKept

(* The copies: at the end of a copying stage they are closed, or the next  *)
(* stage knows of them.                                                    *)
LEMMA CopyingStep ==
  ASSUME IInv, pc \in {"open_candidate", "seal_candidate", "open_rollback", "seal_rollback"},
         Proceed \/ Fail, StageSame, ProcessesSame, tmp' = tmp,
         (mem \in MemType)', mem'.dirty = mem.dirty, mem'.store = mem.store,
         mem'.config = mem.config,
         pc' = "unwind" => NoCopies',
         pc' # "unwind" /\ pc = "open_candidate" =>
           mem'.sealed = mem.sealed /\ mem'.deferred = mem.deferred,
         pc' # "unwind" /\ pc = "seal_rollback" => Has(mem'.deferred, "snapshots")
  PROVE  IInv'
<1>1. Moved /\ pc \notin {"inspect", "reinspect"} \cup ChildStages \cup GatewayStages
  BY AloneStages, SMTT(60) DEF Moved
<1>2. tmp' \in TmpType /\ tmp'.root = tmp.root
  BY ZenonT(60) DEF IInv, DrillType
<1>3. SealedInv'
  <2>1. hist'.ran \subseteq {"locked"}
    BY ZenonT(60) DEF StageSame, IInv, SealedInv
  <2>2. CASE pc' = "unwind"
    BY <2>1, <2>2, AreStages, ZenonT(60) DEF SealedInv, Past
  <2>3. CASE pc' # "unwind"
    <3>1. /\ pc' \in StageNames /\ pc' = Stages[Place(pc) + 1] /\ Place(pc') = Place(pc) + 1
      BY <1>1, <2>3, Moves, ZenonT(60) DEF IInv
    <3>2. Place(pc) \in {5, 6, 7, 8} /\ (pc = "open_rollback" => Place(pc) = 7)
          /\ (pc = "seal_candidate" => Place(pc) = 6)
      BY Places, ZenonT(60)
    <3>3. ~Past("digests")' /\ pc' # "exited"
      BY <3>1, <3>2, Places, AreStages, SMTT(60) DEF Past
    <3>4. pc = "open_rollback" => pc' = "seal_rollback"
      BY <3>1, <3>2, Named
    <3>5. pc = "seal_candidate" => pc' = "open_rollback"
      BY <3>1, <3>2, Named, SMTT(60)
    <3>6. pc = "open_candidate" => NoCopies' \/ Has(mem'.deferred, "snapshots")
      BY <2>3, ZenonT(60) DEF IInv, SealedInv, NoCopies
    <3> QED
      BY <2>1, <2>3, <3>3, <3>4, <3>5, <3>6, ZenonT(60) DEF SealedInv
  <2> QED
    BY <2>2, <2>3, SMTT(60)
<1>4. RootInv' /\ StoreInv'
  BY <1>1, <1>2, RootStep, StoreStep
<1> QED
  BY <1>1, <1>2, <1>3, <1>4, AloneStep, ZenonT(60)

(* A change of the copies in the memory of run. *)
LEMMA MemCopied ==
  ASSUME mem \in MemType, NEW d \in Seq(Deferrals), NEW c \in AnyInput, NEW s \in [Bins -> Binaries],
         mem' = [mem EXCEPT !.copy = c, !.sealed = s, !.deferred = d]
  PROVE  /\ (mem \in MemType)'
         /\ mem'.dirty = mem.dirty /\ mem'.store = mem.store /\ mem'.config = mem.config
         /\ mem'.sealed = s /\ mem'.deferred = d
<1>1. mem' \in [deferred : {d}, dirty : {mem.dirty}, snap : {mem.snap}, copy : {c},
                sealed : {s}, store : {mem.store}, backup : {mem.backup},
                config : {mem.config}]
  BY ZenonT(60) DEF MemType
<1>2. /\ mem'.dirty = mem.dirty /\ mem'.store = mem.store /\ mem'.config = mem.config
      /\ mem'.sealed = s /\ mem'.deferred = d /\ mem'.snap = mem.snap
  BY <1>1
<1>3. /\ mem.dirty \in BOOLEAN /\ mem.store \in Contents /\ mem.backup \in Contents
      /\ mem.config \in Contents
  BY DEF MemType
<1>4. (mem \in MemType)'
  BY <1>1, <1>2, <1>3 DEF MemType
<1> QED
  BY <1>2, <1>4

(* snapshotExecutable opens an input binary, or fails and closes the       *)
(* copies.                                                                 *)
LEMMA OpenInputStep ==
  ASSUME IInv, OpenInput
  PROVE  IInv'
<1>1. /\ mem \in MemType /\ mem.deferred \in Seq(Deferrals) /\ mem.sealed \in [Bins -> Binaries]
      /\ mem.copy \in AnyInput /\ env.inputs[BinaryOf(pc)] \in AnyInput
  BY DEF IInv, DrillType, MemType, EnvType, BinaryOf, Bins
<1>2. /\ pc \in {"open_candidate", "open_rollback"} /\ StageSame /\ ProcessesSame /\ tmp' = tmp
      /\ \/ Proceed /\ mem' = [mem EXCEPT !.copy = env.inputs[BinaryOf(pc)]]
         \/ Fail /\ mem' = [mem EXCEPT !.sealed = [b \in Bins |-> "none"]]
  BY DEF OpenInput
<1>3. CASE Proceed /\ mem' = [mem EXCEPT !.copy = env.inputs[BinaryOf(pc)]]
  <2>1. mem' = [mem EXCEPT !.copy = env.inputs[BinaryOf(pc)], !.sealed = mem.sealed,
                           !.deferred = mem.deferred]
    BY <1>1, <1>3, ZenonT(60) DEF MemType
  <2>2. /\ (mem \in MemType)'
        /\ mem'.dirty = mem.dirty /\ mem'.store = mem.store /\ mem'.config = mem.config
        /\ mem'.sealed = mem.sealed /\ mem'.deferred = mem.deferred
    BY <1>1, <2>1, MemCopied, ZenonT(60)
  <2>3. pc' # "unwind"
    BY <1>2, <1>3, Order, AreStages DEF Proceed
  <2> QED
    BY <1>2, <1>3, <2>2, <2>3, CopyingStep
<1>4. CASE Fail /\ mem' = [mem EXCEPT !.sealed = [b \in Bins |-> "none"]]
  <2> DEFINE s == [b \in Bins |-> "none"]
  <2>1. s \in [Bins -> Binaries]
    BY DEF Binaries
  <2>2. mem' = [mem EXCEPT !.copy = mem.copy, !.sealed = s, !.deferred = mem.deferred]
    BY <1>1, <1>4, ZenonT(60) DEF MemType
  <2>3. /\ (mem \in MemType)'
        /\ mem'.dirty = mem.dirty /\ mem'.store = mem.store /\ mem'.config = mem.config
        /\ mem'.sealed = s
    <3> HIDE DEF s
    <3> QED
      BY <1>1, <2>1, <2>2, MemCopied, ZenonT(60)
  <2>4. NoCopies'
    BY <2>3 DEF NoCopies
  <2>5. pc' = "unwind"
    BY <1>4, SMTT(60) DEF Fail
  <2> QED
    BY <1>2, <1>4, <2>3, <2>4, <2>5, CopyingStep
<1> QED
  BY <1>2, <1>3, <1>4

(* The copy is sealed, and its closing is deferred once both are there. *)
LEMMA SealInputStep ==
  ASSUME IInv, SealInput
  PROVE  IInv'
<1> DEFINE b == BinaryOf(pc)
<1>1. /\ mem \in MemType /\ mem.deferred \in Seq(Deferrals) /\ mem.sealed \in [Bins -> Binaries]
      /\ mem.copy \in AnyInput /\ b \in Bins /\ env.inputs[b] \in AnyInput /\ NoInput \in AnyInput
  BY SMTT(60) DEF IInv, DrillType, MemType, EnvType, BinaryOf, Bins, NoInput, AnyInput, Binaries
<1>2. /\ pc \in {"seal_candidate", "seal_rollback"} /\ StageSame /\ ProcessesSame /\ tmp' = tmp
      /\ \/ /\ Proceed
            /\ \E data \in Copied(mem.copy, env.inputs[b]) :
                 mem' = [mem EXCEPT !.copy = NoInput, !.sealed[b] = data,
                   !.deferred = IF b = "rollback" THEN Deferred("snapshots") ELSE @]
         \/ /\ Fail
            /\ mem' = [mem EXCEPT !.copy = NoInput, !.sealed = [c \in Bins |-> "none"]]
  BY ZenonT(60) DEF SealInput
<1>3. ASSUME Proceed, NEW data \in Copied(mem.copy, env.inputs[b]),
             mem' = [mem EXCEPT !.copy = NoInput, !.sealed[b] = data,
                       !.deferred = IF b = "rollback" THEN Deferred("snapshots") ELSE @]
      PROVE  IInv'
  <2> DEFINE s == [mem.sealed EXCEPT ![b] = data]
             d == IF b = "rollback" THEN Deferred("snapshots") ELSE mem.deferred
  <2>1. data \in Binaries
    BY <1>1, <1>3, SMTT(60) DEF Copied, AnyInput, Binaries
  <2>2. s \in [Bins -> Binaries]
    BY <1>1, <2>1, ZenonT(60)
  <2>3. d \in Seq(Deferrals) /\ (pc = "seal_rollback" => Has(d, "snapshots"))
    <3>1. "snapshots" \in Deferrals
      BY DEF Deferrals
    <3>2. Deferred("snapshots") \in Seq(Deferrals) /\ Has(Deferred("snapshots"), "snapshots")
      BY <1>1, <3>1, DeferredFirst, Zenon DEF Deferred
    <3>3. pc = "seal_rollback" => b = "rollback"
      BY DEF BinaryOf
    <3> QED
      BY <1>1, <3>2, <3>3
  <2>4. mem' = [mem EXCEPT !.copy = NoInput, !.sealed = s, !.deferred = d]
    BY <1>1, <1>3, SMTT(60) DEF MemType
  <2> HIDE DEF s, d
  <2>5. /\ (mem \in MemType)'
        /\ mem'.dirty = mem.dirty /\ mem'.store = mem.store /\ mem'.config = mem.config
        /\ mem'.deferred = d
    BY <1>1, <2>2, <2>3, <2>4, MemCopied, ZenonT(60)
  <2>6. pc' # "unwind" /\ pc # "open_candidate"
    <3>1. pc \in StageNames /\ pc \notin {"publish", "open_candidate"}
      BY <1>2, AreStages, ZenonT(60)
    <3>2. After(pc) \in StageNames
      BY <3>1, Order
    <3> QED
      BY <1>3, <3>1, <3>2, AreStages, SMTT(60) DEF Proceed
  <2> QED
    BY <1>2, <1>3, <2>3, <2>5, <2>6, CopyingStep, ZenonT(60)
<1>4. CASE Fail /\ mem' = [mem EXCEPT !.copy = NoInput, !.sealed = [c \in Bins |-> "none"]]
  <2> DEFINE s == [c \in Bins |-> "none"]
  <2>1. s \in [Bins -> Binaries]
    BY DEF Binaries
  <2>2. mem' = [mem EXCEPT !.copy = NoInput, !.sealed = s, !.deferred = mem.deferred]
    BY <1>1, <1>4, ZenonT(60) DEF MemType
  <2>3. /\ (mem \in MemType)'
        /\ mem'.dirty = mem.dirty /\ mem'.store = mem.store /\ mem'.config = mem.config
        /\ mem'.sealed = s
    <3> HIDE DEF s
    <3> QED
      BY <1>1, <2>1, <2>2, MemCopied, ZenonT(60)
  <2>4. NoCopies'
    BY <2>3 DEF NoCopies
  <2>5. pc' = "unwind"
    BY <1>4, SMTT(60) DEF Fail
  <2> QED
    BY <1>2, <1>4, <2>3, <2>4, <2>5, CopyingStep
<1> QED
  BY <1>2, <1>3, <1>4, ZenonT(60)

(* The digests of both copies are those of the input lock. *)
LEMMA MatchDigestsStep ==
  ASSUME IInv, MatchDigests
  PROVE  IInv'
<1>1. /\ pc = "digests" /\ ProceedIf(\A b \in Bins : mem.sealed[b] = "locked")
      /\ StageSame /\ ProcessesSame /\ mem' = mem /\ tmp' = tmp
  BY ZenonT(60) DEF MatchDigests
<1>2. Moved /\ pc \notin {"inspect", "reinspect"} \cup ChildStages \cup GatewayStages
  BY <1>1, AloneStages DEF Moved, ProceedIf
<1>3. MemKept /\ tmp' \in TmpType /\ tmp'.root = tmp.root
  BY <1>1, MemSame DEF IInv, DrillType
<1>4. RootInv' /\ StoreInv'
  BY <1>1, <1>2, <1>3, RootStep, StoreStep, ZenonT(60) DEF MemKept
<1>5. SealedInv'
  <2>1. /\ NoCopies' \/ Has(mem'.deferred, "snapshots")
        /\ hist'.ran \subseteq {"locked"}
    BY <1>1 DEF IInv, SealedInv, NoCopies, StageSame
  <2>2. pc' # "unwind" => \A b \in Bins : mem'.sealed[b] = "locked"
    BY <1>1, SMTT(60) DEF ProceedIf, Fail
  <2>3. pc' # "exited" /\ ("unwind" \notin StageNames)
    BY <1>2, Moves, AreStages DEF IInv
  <2> QED
    BY <2>1, <2>2, <2>3, ZenonT(60) DEF SealedInv, Past
<1> QED
  BY <1>1, <1>2, <1>3, <1>4, <1>5, AloneStep, SMTT(60) DEF MemKept

(* What is recorded of the store and of the configuration. *)
LEMMA MemRecorded ==
  ASSUME mem \in MemType, NEW d \in Seq(Deferrals), NEW s \in Contents, NEW c \in Contents,
         mem' = [mem EXCEPT !.store = s, !.config = c, !.deferred = d]
  PROVE  /\ (mem \in MemType)'
         /\ mem'.dirty = mem.dirty /\ mem'.sealed = mem.sealed
         /\ mem'.store = s /\ mem'.config = c /\ mem'.deferred = d
<1>1. mem' \in [deferred : {d}, dirty : {mem.dirty}, snap : {mem.snap}, copy : {mem.copy},
                sealed : {mem.sealed}, store : {s}, backup : {mem.backup}, config : {c}]
  BY ZenonT(60) DEF MemType
<1>2. /\ mem'.dirty = mem.dirty /\ mem'.sealed = mem.sealed /\ mem'.snap = mem.snap
      /\ mem'.store = s /\ mem'.config = c /\ mem'.deferred = d
  BY <1>1
<1>3. /\ mem.dirty \in BOOLEAN /\ mem.copy \in AnyInput /\ mem.backup \in Contents
      /\ mem.sealed \in [Bins -> Binaries]
  BY DEF MemType
<1>4. (mem \in MemType)'
  BY <1>1, <1>2, <1>3 DEF MemType
<1> QED
  BY <1>2, <1>4

(* The legacy store is made and its content recorded. *)
LEMMA MakeStoreStep ==
  ASSUME IInv, MakeStore
  PROVE  IInv'
<1>1. /\ pc = "store" /\ (Proceed \/ Fail) /\ StageSame /\ ProcessesSame
      /\ \/ /\ tmp' = [tmp EXCEPT !.files["store"] = "legacy"]
            /\ mem' = [mem EXCEPT !.store = "legacy", !.deferred = Deferred("store")]
         \/ /\ Fail /\ tmp' = tmp
            /\ mem' = mem \/ mem' = [mem EXCEPT !.deferred = Deferred("store")]
  BY DEF MakeStore
<1>2. Moved /\ pc \notin {"inspect", "reinspect"} \cup ChildStages \cup GatewayStages
  BY <1>1, AloneStages DEF Moved
<1>3. /\ mem \in MemType /\ mem.deferred \in Seq(Deferrals) /\ mem.config \in Contents
      /\ "store" \in Deferrals /\ tmp \in TmpType /\ "store" \in Files /\ "legacy" \in Contents
  BY DEF IInv, DrillType, MemType, Deferrals, Files, Contents
<1>4. tmp' \in TmpType /\ tmp'.root = tmp.root
  BY <1>1, <1>3, FileWritten
<1>5. /\ (mem \in MemType)' /\ mem'.sealed = mem.sealed /\ mem'.dirty = mem.dirty
      /\ Has(mem.deferred, "snapshots") => Has(mem'.deferred, "snapshots")
      /\ pc' # "unwind" => mem'.store = "legacy"
  <2>1. CASE mem' = [mem EXCEPT !.store = "legacy", !.deferred = Deferred("store")]
    <3> DEFINE d == Deferred("store")
    <3>1. d \in Seq(Deferrals) /\ (\A x : Has(mem.deferred, x) => Has(d, x))
      BY <1>3, DeferredFirst, Zenon DEF Deferred
    <3> HIDE DEF d
    <3>2. mem' = [mem EXCEPT !.store = "legacy", !.config = mem.config, !.deferred = d]
      BY <1>3, <2>1, ZenonT(60) DEF MemType, d
    <3>3. /\ (mem \in MemType)' /\ mem'.sealed = mem.sealed /\ mem'.dirty = mem.dirty
          /\ mem'.store = "legacy" /\ mem'.deferred = d
      BY <1>3, <3>1, <3>2, MemRecorded, ZenonT(60)
    <3> QED
      BY <3>1, <3>3
  <2>2. CASE Fail /\ mem' = mem
    BY <2>2, MemSame DEF IInv, MemKept, Fail
  <2>3. CASE Fail /\ mem' = [mem EXCEPT !.deferred = Deferred("store")]
    <3>1. MemKept
      BY <1>3, <2>3, DeferringKeeps, Zenon DEF IInv
    <3> QED
      BY <2>3, <3>1 DEF MemKept, Fail
  <2> QED
    BY <1>1, <2>1, <2>2, <2>3, ZenonT(60)
<1>6. RootInv' /\ SealedInv'
  BY <1>1, <1>2, <1>4, <1>5, RootStep, SealedStep, ZenonT(60) DEF IInv, SealedInv, StageSame
<1>7. StoreInv'
  <2>1. CASE pc' = "unwind"
    BY <2>1, AreStages, ZenonT(60) DEF StoreInv, Past
  <2>2. CASE pc' # "unwind"
    <3>1. Place(pc') = 16
      BY <1>1, <1>2, <2>2, Moves, Places DEF IInv
    <3> QED
      BY <1>5, <2>2, <3>1, Places DEF StoreInv, Past
  <2> QED
    BY <2>1, <2>2
<1> QED
  BY <1>1, <1>2, <1>4, <1>5, <1>6, <1>7, AloneStep, SMTT(60)

(* The configuration of the previous release is written and recorded. *)
LEMMA WriteConfigsStep ==
  ASSUME IInv, WriteConfigs
  PROVE  IInv'
<1>1. /\ pc = "configs" /\ (Proceed \/ Fail) /\ StageSame /\ ProcessesSame
      /\ \/ /\ tmp' = [tmp EXCEPT !.files["oldconfig"] = "config"]
            /\ mem' = [mem EXCEPT !.config = "config"]
         \/ Fail /\ tmp' = tmp /\ mem' = mem
  BY DEF WriteConfigs
<1>2. Moved /\ pc \notin {"inspect", "reinspect"} \cup ChildStages \cup GatewayStages
  BY <1>1, AloneStages DEF Moved
<1>3. /\ mem \in MemType /\ mem.deferred \in Seq(Deferrals) /\ mem.store \in Contents
      /\ tmp \in TmpType /\ "oldconfig" \in Files /\ "config" \in Contents
  BY DEF IInv, DrillType, MemType, Files, Contents
<1>4. tmp' \in TmpType /\ tmp'.root = tmp.root
  BY <1>1, <1>3, FileWritten
<1>5. /\ (mem \in MemType)' /\ mem'.sealed = mem.sealed /\ mem'.dirty = mem.dirty
      /\ mem'.deferred = mem.deferred /\ mem'.store = mem.store
      /\ pc' # "unwind" => mem'.config = "config"
  <2>1. CASE mem' = [mem EXCEPT !.config = "config"]
    <3>1. mem' = [mem EXCEPT !.store = mem.store, !.config = "config", !.deferred = mem.deferred]
      BY <1>3, <2>1, ZenonT(60) DEF MemType
    <3> QED
      BY <1>3, <3>1, MemRecorded, ZenonT(60)
  <2>2. CASE Fail /\ mem' = mem
    BY <2>2, MemSame DEF IInv, MemKept, Fail
  <2> QED
    BY <1>1, <2>1, <2>2, SMTT(60)
<1>6. RootInv' /\ SealedInv'
  BY <1>1, <1>2, <1>4, <1>5, RootStep, SealedStep DEF IInv, SealedInv, StageSame
<1>7. StoreInv'
  <2>1. CASE pc' = "unwind"
    BY <2>1, AreStages DEF StoreInv, Past
  <2>2. CASE pc' # "unwind"
    <3>1. Place(pc') = 17
      BY <1>1, <1>2, <2>2, Moves, Places DEF IInv
    <3>2. mem.store = "legacy"
      BY <1>1, Places, AreStages, SMTT(60) DEF IInv, StoreInv, Past
    <3> QED
      BY <1>5, <2>2, <3>1, <3>2, Places DEF StoreInv
  <2> QED
    BY <2>1, <2>2
<1> QED
  BY <1>1, <1>2, <1>4, <1>5, <1>6, <1>7, AloneStep, SMTT(60)

(* What was restored is compared with what was recorded, so the previous   *)
(* release starts on it.                                                   *)
LEMMA CheckRestoredStep ==
  ASSUME IInv, CheckRestored
  PROVE  IInv'
<1>1. /\ pc = "restored" /\ (Proceed \/ Fail) /\ StageSame /\ ProcessesSame
      /\ mem' = mem /\ tmp' = tmp
      /\ \/ tmp.files["newconfig"] = mem.config /\ tmp.files["restored"] = mem.store
         \/ Fail
  BY DEF CheckRestored, ReadAndProceedIf
<1>2. Moved /\ pc \notin {"inspect", "reinspect"} \cup ChildStages \cup GatewayStages
  BY <1>1, AloneStages, ZenonT(60) DEF Moved
<1>3. MemKept /\ tmp' \in TmpType /\ tmp'.root = tmp.root
  BY <1>1, MemSame, SMTT(60) DEF IInv, DrillType
<1>4. RootInv' /\ SealedInv'
  BY <1>1, <1>2, <1>3, RootStep, SealedStep, ZenonT(60) DEF IInv, SealedInv, StageSame
<1>5. StoreInv'
  <2>1. CASE pc' = "unwind"
    BY <2>1, AreStages DEF StoreInv, Past
  <2>2. CASE pc' # "unwind"
    <3>1. mem.store = "legacy" /\ mem.config = "config"
      BY <1>1, Places, AreStages DEF IInv, StoreInv, Past
    <3>2. tmp.files["newconfig"] = mem.config /\ tmp.files["restored"] = mem.store
      BY <1>1, <2>2 DEF Fail
    <3> QED
      BY <1>1, <3>1, <3>2, ZenonT(60) DEF StoreInv
  <2> QED
    BY <2>1, <2>2
<1> QED
  BY <1>1, <1>2, <1>3, <1>4, <1>5, AloneStep, ZenonT(60) DEF MemKept

(* writeSummaryAfterCleanup removes the directory and makes sure of it. *)
LEMMA CleanupStep ==
  ASSUME IInv, Cleanup
  PROVE  IInv'
<1>1. /\ pc = "cleanup" /\ StageSame /\ ProcessesSame /\ mem' = mem
      /\ \/ Proceed /\ tmp' = Removed
         \/ Fail /\ tmp' = tmp
  BY DEF Cleanup
<1>2. Moved /\ pc \notin {"inspect", "reinspect"} \cup ChildStages \cup GatewayStages
  BY <1>1, AloneStages DEF Moved
<1>3. MemKept /\ tmp' \in TmpType
  <2>1. MemKept /\ tmp \in TmpType
    BY <1>1, MemSame DEF IInv, DrillType
  <2>2. Removed \in TmpType
    BY SMTT(60) DEF TmpType, Removed, Contents
  <2> QED
    BY <1>1, <2>1, <2>2
<1>4. StoreInv' /\ SealedInv'
  BY <1>1, <1>2, <1>3, StoreStep, SealedStep, ZenonT(60) DEF IInv, SealedInv, StageSame, MemKept
<1>5. RootInv'
  <2>1. CASE Fail
    BY <2>1, AreStages DEF RootInv, Past, Fail
  <2>2. CASE Proceed /\ tmp' = Removed
    <3>1. pc' = "publish"
      <4>1. "cleanup" \in StageNames
        BY AreStages
      <4>2. After("cleanup") = Stages[Place("cleanup") + 1]
        BY <4>1, Order, ZenonT(60)
      <4>3. Place("cleanup") = 40 /\ Stages[41] = "publish"
        BY Places, Named, ZenonT(60)
      <4> QED
        BY <1>1, <2>2, <4>2, <4>3 DEF Proceed
    <3> QED
      BY <2>2, <3>1, SMTT(60) DEF RootInv
  <2> QED
    BY <1>1, <2>1, <2>2
<1> QED
  BY <1>1, <1>2, <1>3, <1>4, <1>5, AloneStep, SMTT(60) DEF MemKept

(* A sequence of two. *)
LEMMA PairOf ==
  ASSUME NEW S, NEW s \in Seq(S), Len(s) = 2, NEW x, s[1] = x, s[2] = x
  PROVE  s = <<x, x>>
OBVIOUS

(* The summary. *)
LEMMA PublishStep ==
  ASSUME IInv, Publish
  PROVE  IInv'
<1>1. /\ pc = "publish" /\ pc' = "unwind" /\ StageSame /\ ProcessesSame /\ mem' = mem /\ tmp' = tmp
      /\ \/ out' = [exit |-> "0",
                    class |-> IF mem.dirty THEN "ITERATION_ONLY" ELSE "FINAL_CANDIDATE"]
         \/ out' = [out EXCEPT !.exit = "1"]
  BY DEF Publish, Fail
<1>2. treeVars' = treeVars /\ env' = env /\ hist' = hist /\ group' = group /\ insp' = insp
  BY <1>1 DEF StageSame, ProcessesSame, treeVars
<1>3. TreeInv'
  BY <1>2, TreeUnchanged DEF IInv
<1>4. pc \notin ChildStages \cup GatewayStages \cup {"unwind"}
  BY <1>1 DEF ChildStages, GatewayStages
<1>5. group' = NoGroup
  BY <1>2, <1>4, NoProcess
<1>6. out = [class |-> "none", exit |-> "none"]
  BY <1>1, AreStages DEF IInv, SummaryInv
<1>7. /\ out' \in OutType
      /\ out'.class # "none" => out'.exit = "0"
      /\ out'.class = "FINAL_CANDIDATE" => ~mem.dirty
  <2>1. CASE out' = [out EXCEPT !.exit = "1"]
    <3>1. out' = [class |-> "none", exit |-> "1"]
      BY <1>6, <2>1
    <3> QED
      BY <3>1 DEF OutType
  <2>2. CASE out' = [exit |-> "0",
                     class |-> IF mem.dirty THEN "ITERATION_ONLY" ELSE "FINAL_CANDIDATE"]
    BY <2>2 DEF OutType
  <2> QED
    BY <1>1, <2>1, <2>2
<1>8. MemKept
  BY <1>1, MemSame DEF IInv
<1>9. DrillType'
  BY <1>1, <1>2, <1>5, <1>7, <1>8, NoGroupKept, ZenonT(60)
  DEF IInv, DrillType, EnvType, HistType, TmpType, GroupType, MemKept
<1>10. RootInv' /\ StoreInv'
  BY <1>1, AreStages DEF RootInv, StoreInv, Past
<1>11. SealedInv'
  BY <1>1, <1>2, AreStages, ZenonT(60) DEF IInv, SealedInv, Past, NoCopies
<1>12. hist.passed = Bins
  <2>1. Past("accept_candidate") /\ Past("accept_rollback")
    BY <1>1, Places, AreStages DEF Past
  <2> QED
    BY <2>1 DEF IInv, SummaryInv, DrillType, HistType, Bins
<1>13. SummaryInv'
  <2>1. tmp = Removed
    BY <1>1 DEF IInv, RootInv
  <2> QED
    BY <1>1, <1>2, <1>5, <1>7, <1>12, <2>1, AreStages, SMTT(60) DEF SummaryInv, Past
<1>14. CleanInv'
  <2>1. insp.pc = "idle"
    BY <1>1 DEF IInv, CleanInv
  <2> QED
    BY <1>1, <1>2, <2>1, AreStages DEF CleanInv, Past
<1>15. FinalMeansClean'
  <2>1. ASSUME out'.class = "FINAL_CANDIDATE" PROVE hist'.clean = <<TRUE, TRUE>>
    <3>1. Past("reinspect")
      BY <1>1, Places, AreStages DEF Past
    <3>2. ~mem.dirty
      BY <1>7, <2>1
    <3>3. Len(hist.clean) = 2 /\ hist.clean[1] /\ hist.clean[2]
      BY <3>1, <3>2 DEF IInv, CleanInv
    <3>4. hist.clean \in Seq(BOOLEAN)
      BY DEF IInv, DrillType, HistType
    <3>5. hist.clean[1] \in BOOLEAN /\ hist.clean[2] \in BOOLEAN
      BY <3>3, <3>4
    <3>6. hist.clean[1] = TRUE /\ hist.clean[2] = TRUE
      BY <3>3, <3>5, Zenon
    <3>7. hist.clean = <<TRUE, TRUE>>
      BY <3>3, <3>4, <3>6, PairOf, Zenon
    <3> QED
      BY <1>2, <3>7
  <2> QED
    BY <2>1, ZenonT(60) DEF FinalMeansClean
<1> QED
  BY <1>3, <1>5, <1>9, <1>10, <1>11, <1>13, <1>14, <1>15, NoGroupKept DEF IInv

(* The deferred calls, but for the first. *)
LEMMA HasTail ==
  ASSUME NEW S, NEW s \in Seq(S), s # <<>>, NEW x, Has(s, x), x # Head(s)
  PROVE  Has(Tail(s), x)
BY HasHead

(* A deferred call: a gateway is stopped, the copies are closed, or the    *)
(* directory is removed after a failure.                                   *)
LEMMA UnwindStep ==
  ASSUME IInv, Unwind
  PROVE  IInv'
<1> DEFINE what == Head(mem.deferred)
           d == Tail(mem.deferred)
           s == IF what = "snapshots" THEN [b \in Bins |-> "none"] ELSE mem.sealed
<1>1. /\ pc = "unwind" /\ pc' = pc /\ mem.deferred # <<>>
      /\ group' = (IF what \in Bins THEN NoGroup ELSE group)
      /\ tmp' = tmp \/ (out.exit = "1" /\ tmp' = Removed)
      /\ mem' = [mem EXCEPT !.deferred = Tail(@),
              !.sealed = IF what = "snapshots" THEN [b \in Bins |-> "none"] ELSE @]
      /\ treeVars' = treeVars /\ insp' = insp /\ env' = env /\ out' = out /\ hist' = hist
  BY DEF Unwind, treeVars
<1>2. /\ mem \in MemType /\ mem.deferred \in Seq(Deferrals) /\ mem.sealed \in [Bins -> Binaries]
      /\ tmp \in TmpType /\ mem.copy \in AnyInput
  BY DEF IInv, DrillType, MemType
<1>3. d \in Seq(Deferrals) /\ s \in [Bins -> Binaries]
  BY <1>1, <1>2 DEF Binaries
<1>4. mem' = [mem EXCEPT !.copy = mem.copy, !.sealed = s, !.deferred = d]
  BY <1>1, <1>2, ZenonT(60) DEF MemType
<1>5. /\ (mem \in MemType)' /\ mem'.sealed = s /\ mem'.deferred = d /\ mem'.dirty = mem.dirty
  <2> HIDE DEF s, d
  <2> QED
    BY <1>2, <1>3, <1>4, MemCopied, ZenonT(60)
<1>6. TreeInv'
  BY <1>1, TreeUnchanged DEF IInv
<1>7. group' = NoGroup
  <2>1. pc \notin ChildStages
    BY <1>1 DEF ChildStages
  <2> QED
    BY <1>1, <2>1 DEF IInv, GroupInv
<1>8. tmp' \in TmpType
  <2>1. Removed \in TmpType
    BY DEF TmpType, Removed, Contents
  <2> QED
    BY <1>1, <1>2, <2>1
<1>9. DrillType'
  BY <1>1, <1>5, <1>7, <1>8, NoGroupKept
  DEF IInv, DrillType, EnvType, HistType, TmpType, GroupType, OutType
<1>10. RootInv' /\ StoreInv'
  BY <1>1, AreStages DEF RootInv, StoreInv, Past
<1>11. SealedInv'
  <2>1. NoCopies' \/ Has(mem'.deferred, "snapshots")
    <3>1. CASE what = "snapshots"
      BY <1>5, <3>1 DEF NoCopies
    <3>2. CASE what # "snapshots" /\ Has(mem.deferred, "snapshots")
      BY <1>1, <1>2, <1>5, <3>2, HasTail, SMTT(60)
    <3>3. CASE what # "snapshots" /\ ~Has(mem.deferred, "snapshots")
      <4>1. NoCopies
        BY <1>1, <3>3 DEF IInv, SealedInv
      <4> QED
        BY <1>5, <3>3, <4>1 DEF NoCopies
    <3> QED
      BY <3>1, <3>2, <3>3, SMTT(60)
  <2> QED
    BY <1>1, <2>1, AreStages, ZenonT(60) DEF IInv, SealedInv, Past
<1>12. SummaryInv'
  BY <1>1, <1>7, AreStages DEF IInv, SummaryInv, Past
<1>13. CleanInv' /\ FinalMeansClean'
  BY <1>1, AreStages, ZenonT(60) DEF IInv, CleanInv, Past, FinalMeansClean
<1> QED
  BY <1>6, <1>7, <1>9, <1>10, <1>11, <1>12, <1>13, NoGroupKept, SMTT(60) DEF IInv

(* run returns, with no process and no copy. *)
LEMMA ExitStep ==
  ASSUME IInv, Exit
  PROVE  IInv'
<1>1. /\ pc = "unwind" /\ pc' = "exited" /\ mem.deferred = <<>>
      /\ treeVars' = treeVars /\ insp' = insp /\ env' = env /\ mem' = mem /\ tmp' = tmp
      /\ group' = group /\ out' = out /\ hist' = hist
  BY DEF Exit, treeVars
<1>2. TreeInv'
  BY <1>1, TreeUnchanged DEF IInv
<1>3. group' = NoGroup
  <2>1. pc \notin ChildStages
    BY <1>1, ZenonT(60) DEF ChildStages
  <2> QED
    BY <1>1, <2>1, SMTT(60) DEF IInv, GroupInv
<1>4. MemKept
  BY <1>1, MemSame, ZenonT(60) DEF IInv
<1>5. DrillType'
  BY <1>1, <1>3, <1>4, NoGroupKept, ZenonT(60)
  DEF IInv, DrillType, EnvType, HistType, TmpType, GroupType, OutType, MemKept
<1>6. RootInv' /\ StoreInv'
  BY <1>1, AreStages, ZenonT(60) DEF RootInv, StoreInv, Past
<1>7. SealedInv'
  <2>1. ~Has(mem.deferred, "snapshots")
    BY <1>1 DEF Has
  <2>2. NoCopies
    BY <1>1, <2>1, SMTT(60) DEF IInv, SealedInv
  <2> QED
    BY <1>1, <2>2, AreStages, SMTT(60) DEF IInv, SealedInv, Past, NoCopies
<1>8. SummaryInv' /\ CleanInv' /\ FinalMeansClean'
  BY <1>1, <1>3, AreStages, ZenonT(60) DEF IInv, SummaryInv, Past, CleanInv, FinalMeansClean
<1> QED
  BY <1>2, <1>3, <1>5, <1>6, <1>7, <1>8, NoGroupKept DEF IInv
----------------------------------------------------------------------------
(* The processes.                                                          *)

(* The stages that have a process. *)
LEMMA ProcessStages ==
  ASSUME pc \in ChildStages \cup GatewayStages \cup {"start_candidate", "start_rollback"}
  PROVE  /\ pc \in StageNames \ {"publish"}
         /\ Past("digests") /\ Past("root")
         /\ pc \notin {"inspect", "reinspect", "root", "cleanup", "seal_candidate",
                       "open_rollback", "seal_rollback", "digests", "store", "configs",
                       "restored", "unwind", "exited"}
         /\ pc \in GatewayStages \cup {"start_candidate", "start_rollback"} => pc \notin ChildStages
         /\ pc \in ChildStages \cup {"start_candidate", "start_rollback"} =>
              pc \notin GatewayStages /\ pc \notin {"accept_candidate", "accept_rollback"}
<1>1. pc \in StageNames
  BY AreStages, ZenonT(60) DEF ChildStages, GatewayStages
<1>2. Place(pc) > 9
  BY Places, SMTT(60) DEF ChildStages, GatewayStages
<1>3. Past("digests") /\ Past("root")
  BY <1>1, <1>2, Places, Order, SMTT(60) DEF Past
<1> QED
  BY <1>1, <1>3 DEF ChildStages, GatewayStages

(* The end of a stage that has a process. *)
LEMMA ProcessStep ==
  ASSUME IInv, pc \in ChildStages \cup GatewayStages \cup {"start_candidate", "start_rollback"},
         Proceed \/ Fail, treeVars' = treeVars, env' = env, tmp' = tmp, MemKept,
         hist' \in HistType, hist'.ran \subseteq {"locked"}, hist'.clean = hist.clean,
         hist.passed \subseteq hist'.passed,
         pc = "accept_candidate" /\ pc' # "unwind" => "candidate" \in hist'.passed,
         pc = "accept_rollback" /\ pc' # "unwind" => "rollback" \in hist'.passed,
         group' \in GroupType, GroupInv'
  PROVE  IInv'
<1>1. Moved /\ insp' = insp
  BY ProcessStages DEF Moved, treeVars
<1>2. TreeInv'
  BY TreeUnchanged, ZenonT(60) DEF IInv
<1>3. DrillType'
  <2>1. env' \in EnvType /\ tmp' \in TmpType /\ (mem \in MemType)'
    BY ZenonT(60) DEF IInv, DrillType, MemKept
  <2>2. pc' \in StageNames \cup {"unwind", "exited"} /\ out' \in OutType
    BY <1>1, Moves, ZenonT(60) DEF IInv
  <2> QED
    BY <2>1, <2>2, ZenonT(60) DEF DrillType, EnvType, TmpType, GroupType, OutType, HistType
<1>4. RootInv' /\ StoreInv'
  BY <1>1, ProcessStages, RootStep, StoreStep, ZenonT(60) DEF MemKept
<1>5. SealedInv'
  BY <1>1, ProcessStages, SealedStep, ZenonT(60) DEF MemKept
<1>6. SummaryInv'
  BY <1>1, SummaryStep, SMTT(60)
<1>7. CleanInv' /\ FinalMeansClean'
  BY <1>1, ProcessStages, CleanStep, ZenonT(60) DEF MemKept
<1> QED
  BY <1>2, <1>3, <1>4, <1>5, <1>6, <1>7, ZenonT(60) DEF IInv

(* A step that is not one of run, or with which run only starts a child. *)
LEMMA StillStep ==
  ASSUME IInv, TreeInv', pc' = pc, mem' = mem, out' = out, env' \in EnvType, tmp' \in TmpType,
         group' \in GroupType, hist' \in HistType, hist'.ran \subseteq {"locked"},
         hist'.passed = hist.passed, hist'.clean = hist.clean,
         insp'.pc # "idle" => pc \in {"inspect", "reinspect"},
         tmp' = tmp \/ (group # NoGroup /\ tmp'.root = tmp.root),
         group' # NoGroup => group'.exe # "none" /\ (group # NoGroup \/ pc \in ChildStages)
  PROVE  IInv'
<1>1. DrillType'
  <2>1. MemKept
    BY MemSame DEF IInv
  <2> QED
    BY <2>1, ZenonT(60) DEF IInv, DrillType, EnvType, TmpType, GroupType, OutType, HistType, MemKept
<1>2. tmp'.root = tmp.root
  BY ZenonT(60)
<1>3. GroupInv'
  <2>1. ASSUME group' # NoGroup, group = NoGroup PROVE tmp.root /\ pc \in ChildStages
    <3>1. pc \in ChildStages
      BY <2>1, ZenonT(60)
    <3>2. Past("root") /\ pc # "publish"
      BY <3>1, ProcessStages, ZenonT(60)
    <3> QED
      BY <3>1, <3>2, ZenonT(60) DEF IInv, RootInv
  <2>2. ASSUME group # NoGroup
        PROVE  /\ tmp.root
               /\ \/ pc \in ChildStages
                  \/ /\ pc \in GatewayStages \cup {"unwind"}
                     /\ mem.deferred # <<>> /\ Head(mem.deferred) \in Bins
    BY <2>2, ZenonT(60) DEF IInv, GroupInv
  <2> QED
    BY <1>2, <2>1, <2>2, SMTT(60) DEF GroupInv
<1>4. pc \in {"publish", "start_rollback"} => tmp' = tmp
  <2>1. pc \in {"publish", "start_rollback"} => group = NoGroup
    BY NoProcess, ZenonT(60) DEF ChildStages, GatewayStages
  <2> QED
    BY <2>1, ZenonT(60)
<1>5. RootInv' /\ StoreInv'
  <2>1. /\ Past("root")' = Past("root") /\ Past("store")' = Past("store")
        /\ Past("configs")' = Past("configs")
    BY ZenonT(60) DEF Past
  <2> QED
    BY <1>2, <1>4, <2>1, ZenonT(60) DEF IInv, RootInv, StoreInv
<1>6. SealedInv'
  BY ZenonT(60) DEF IInv, SealedInv, NoCopies, Past
<1>7. SummaryInv'
  <2>1. ASSUME out.class # "none" PROVE tmp' = tmp /\ group' = NoGroup
    <3>1. group = NoGroup /\ pc \notin StageNames
      <4>1. SummaryInv
        BY ZenonT(60) DEF IInv
      <4>2. pc \in StageNames => out.class = "none"
        <5>1. pc \in StageNames => out = [class |-> "none", exit |-> "none"]
          BY <4>1, ZenonT(60) DEF SummaryInv
        <5> QED
          BY <5>1
      <4> QED
        BY <2>1, <4>1, <4>2, ZenonT(60) DEF SummaryInv
    <3>2. pc \notin ChildStages
      BY <3>1, ProcessStages, ZenonT(60)
    <3> QED
      BY <3>1, <3>2, SMTT(60)
  <2> QED
    BY <2>1, ZenonT(60) DEF IInv, SummaryInv, Past
<1>8. CleanInv' /\ FinalMeansClean'
  BY ZenonT(60) DEF IInv, CleanInv, FinalMeansClean, Past
<1> QED
  BY <1>1, <1>3, <1>5, <1>6, <1>7, <1>8, SMTT(60) DEF IInv

(* What is started has the digests of the input lock. *)
LEMMA Started ==
  ASSUME IInv, NEW b \in Bins, StartProcess(b), Past("digests")
  PROVE  /\ group' \in GroupType /\ group' # NoGroup /\ group'.exe # "none"
         /\ hist' \in HistType /\ hist'.ran \subseteq {"locked"}
         /\ hist'.passed = hist.passed /\ hist'.clean = hist.clean
<1>1. mem.sealed[b] = "locked"
  BY DEF IInv, SealedInv
<1>2. group' = [exe |-> "locked", leader |-> TRUE, others |-> "none"]
  BY <1>1 DEF StartProcess
<1>3. group' \in GroupType /\ group' # NoGroup /\ group'.exe # "none"
  BY <1>2, ZenonT(60) DEF GroupType, NoGroup, Binaries
<1> DEFINE r == hist.ran \cup {"locked"}
<1>4. hist \in HistType /\ r \subseteq {"locked"} /\ r \subseteq Binaries
  BY ZenonT(60) DEF IInv, SealedInv, DrillType, HistType, Binaries
<1>5. hist' = [hist EXCEPT !.ran = r]
  BY <1>1 DEF StartProcess
<1> HIDE DEF r
<1>6. hist' \in [ran : {r}, passed : {hist.passed}, clean : {hist.clean}]
  BY <1>4, <1>5, ZenonT(60) DEF HistType
<1>7. hist'.ran = r /\ hist'.passed = hist.passed /\ hist'.clean = hist.clean
  BY <1>6, SMTT(60)
<1>8. hist' \in HistType
  BY <1>4, <1>6, <1>7 DEF HistType
<1> QED
  BY <1>3, <1>4, <1>7, <1>8, ZenonT(60)

(* A stage is about one of the two binaries. *)
LEMMA BinaryFacts == BinaryOf(pc) \in Bins
BY DEF BinaryOf, Bins

(* runBoundedProcess starts a child. *)
LEMMA RunChildStep ==
  ASSUME IInv, RunChild
  PROVE  IInv'
<1>1. /\ pc \in ChildStages /\ group.exe = "none"
      /\ treeVars' = treeVars /\ insp' = insp /\ env' = env /\ mem' = mem /\ tmp' = tmp
      /\ \/ StartProcess(BinaryOf(pc)) /\ pc' = pc /\ out' = out
         \/ Fail /\ group' = group /\ hist' = hist
  BY ZenonT(60) DEF RunChild, treeVars
<1>2. group = NoGroup /\ Past("digests") /\ pc \notin {"inspect", "reinspect"}
  BY <1>1, ProcessStages, ZenonT(60) DEF IInv, GroupInv
<1>3. CASE StartProcess(BinaryOf(pc)) /\ pc' = pc /\ out' = out
  <2>1. /\ group' \in GroupType /\ group' # NoGroup /\ group'.exe # "none"
        /\ hist' \in HistType /\ hist'.ran \subseteq {"locked"}
        /\ hist'.passed = hist.passed /\ hist'.clean = hist.clean
    BY <1>2, <1>3, BinaryFacts, Started, ZenonT(60)
  <2>2. TreeInv' /\ insp.pc = "idle"
    BY <1>1, <1>2, TreeUnchanged, ZenonT(60) DEF IInv, CleanInv
  <2>3. env' \in EnvType /\ tmp' \in TmpType
    BY <1>1, ZenonT(60) DEF IInv, DrillType
  <2> QED
    BY <1>1, <1>3, <2>1, <2>2, <2>3, StillStep, ZenonT(60)
<1>4. CASE Fail /\ group' = group /\ hist' = hist
  <2>1. MemKept
    BY <1>1, MemSame DEF IInv
  <2>2. GroupInv' /\ group' \in GroupType
    BY <1>2, <1>4, NoGroupKept
  <2>3. hist' \in HistType /\ hist'.ran \subseteq {"locked"} /\ pc' = "unwind"
    BY <1>4, SMTT(60) DEF IInv, DrillType, SealedInv, Fail
  <2> QED
    BY <1>1, <1>4, <2>1, <2>2, <2>3, ProcessStep, ZenonT(60)
<1> QED
  BY <1>1, <1>3, <1>4, SMTT(60)

(* runBoundedProcess returns, and the group of the child is gone. *)
LEMMA ChildEndsStep ==
  ASSUME IInv, ChildReturned \/ ChildKilled
  PROVE  IInv'
<1>1. /\ pc \in ChildStages /\ (Proceed \/ Fail) /\ group' = NoGroup
      /\ treeVars' = treeVars /\ env' = env /\ mem' = mem /\ tmp' = tmp /\ hist' = hist
  BY DEF ChildReturned, ChildKilled
<1>2. MemKept /\ GroupInv' /\ group' \in GroupType
  BY <1>1, MemSame, NoGroupKept, ZenonT(60) DEF IInv
<1>3. hist' \in HistType /\ hist'.ran \subseteq {"locked"}
  BY <1>1 DEF IInv, DrillType, SealedInv
<1>4. pc \notin {"accept_candidate", "accept_rollback"}
  BY <1>1, ProcessStages
<1> QED
  BY <1>1, <1>2, <1>3, <1>4, ProcessStep, ZenonT(60)

(* A gateway is started, and its stopping deferred. *)
LEMMA StartGatewayStep ==
  ASSUME IInv, StartGateway
  PROVE  IInv'
<1>1. /\ pc \in {"start_candidate", "start_rollback"} /\ (Proceed \/ Fail)
      /\ treeVars' = treeVars /\ env' = env /\ tmp' = tmp
      /\ \/ /\ Proceed /\ StartProcess(BinaryOf(pc))
            /\ mem' = [mem EXCEPT !.deferred = Deferred(BinaryOf(pc))]
         \/ Fail /\ group' = group /\ hist' = hist /\ mem' = mem
  BY DEF StartGateway
<1>2. /\ group = NoGroup /\ Past("digests") /\ tmp.root
      /\ pc \notin {"accept_candidate", "accept_rollback"} /\ pc \in StageNames \ {"publish"}
  <2>1. /\ Past("digests") /\ Past("root") /\ pc \in StageNames \ {"publish"}
        /\ pc \notin ChildStages \cup GatewayStages \cup {"unwind"}
        /\ pc \notin {"accept_candidate", "accept_rollback"}
    BY <1>1, ProcessStages
  <2> QED
    BY <2>1, NoProcess DEF IInv, RootInv
<1>3. CASE Proceed /\ StartProcess(BinaryOf(pc))
           /\ mem' = [mem EXCEPT !.deferred = Deferred(BinaryOf(pc))]
  <2>1. /\ group' \in GroupType /\ group' # NoGroup /\ group'.exe # "none"
        /\ hist' \in HistType /\ hist'.ran \subseteq {"locked"}
        /\ hist'.passed = hist.passed /\ hist'.clean = hist.clean
    BY <1>2, <1>3, BinaryFacts, Started
  <2>2. BinaryOf(pc) \in Deferrals
    BY BinaryFacts DEF Deferrals
  <2>3. MemKept /\ mem'.deferred # <<>> /\ Head(mem'.deferred) = BinaryOf(pc)
    BY <1>3, <2>2, DeferringKeeps, Zenon DEF IInv
  <2>4. pc' \in GatewayStages
    <3>1. pc' = Stages[Place(pc) + 1]
      BY <1>2, <1>3, Order DEF Proceed
    <3>2. Place(pc) \in {24, 32}
      BY <1>1, Places, ZenonT(60)
    <3>3. pc' \in {"health_candidate", "health_rollback"}
      BY <3>1, <3>2, Named
    <3> QED
      BY <3>3 DEF GatewayStages
  <2>5. GroupInv'
    BY <1>1, <1>2, <2>1, <2>3, <2>4, BinaryFacts, SMTT(60) DEF GroupInv
  <2> QED
    BY <1>1, <1>2, <2>1, <2>3, <2>5, ProcessStep, SMTT(60)
<1>4. CASE Fail /\ group' = group /\ hist' = hist /\ mem' = mem
  <2>1. MemKept
    BY <1>4, MemSame DEF IInv
  <2>2. GroupInv' /\ group' \in GroupType
    BY <1>2, <1>4, NoGroupKept, ZenonT(60)
  <2>3. hist' \in HistType /\ hist'.ran \subseteq {"locked"}
    BY <1>4 DEF IInv, DrillType, SealedInv
  <2> QED
    BY <1>1, <1>2, <1>4, <2>1, <2>2, <2>3, ProcessStep, SMTT(60)
<1> QED
  BY <1>1, <1>3, <1>4

(* smokeGateway: the three checks of a gateway. *)
LEMMA SmokeStep ==
  ASSUME IInv, SmokeHealth \/ SmokeReject \/ SmokeAccept
  PROVE  IInv'
<1>1. /\ pc \in {"health_candidate", "reject_candidate", "accept_candidate",
                 "health_rollback", "reject_rollback", "accept_rollback"}
      /\ (Proceed \/ Fail)
      /\ treeVars' = treeVars /\ env' = env /\ tmp' = tmp /\ mem' = mem /\ group' = group
      /\ \/ hist' = hist /\ (Fail \/ pc \notin {"accept_candidate", "accept_rollback"})
         \/ hist' = [hist EXCEPT !.passed = @ \cup {BinaryOf(pc)}]
  BY DEF SmokeHealth, SmokeReject, SmokeAccept, StageSame
<1>2. pc \in GatewayStages
  BY <1>1 DEF GatewayStages
<1>3. MemKept
  BY <1>1, MemSame DEF IInv
<1>4. /\ hist' \in HistType /\ hist'.ran \subseteq {"locked"} /\ hist'.clean = hist.clean
      /\ hist.passed \subseteq hist'.passed
      /\ pc \in {"accept_candidate", "accept_rollback"} /\ pc' # "unwind" =>
           BinaryOf(pc) \in hist'.passed
  <2>1. hist \in HistType /\ hist.ran \subseteq {"locked"}
    BY DEF IInv, DrillType, SealedInv
  <2>2. CASE hist' = hist /\ (Fail \/ pc \notin {"accept_candidate", "accept_rollback"})
    BY <2>1, <2>2, SMTT(60) DEF Fail
  <2>3. CASE hist' = [hist EXCEPT !.passed = @ \cup {BinaryOf(pc)}]
    <3> DEFINE q == hist.passed \cup {BinaryOf(pc)}
    <3>1. q \subseteq Bins /\ hist' = [hist EXCEPT !.passed = q]
      BY <2>1, <2>3, BinaryFacts, SMTT(60) DEF HistType
    <3>2. hist.passed \subseteq q /\ BinaryOf(pc) \in q
      OBVIOUS
    <3> HIDE DEF q
    <3>3. hist' \in [ran : {hist.ran}, passed : {q}, clean : {hist.clean}]
      BY <2>1, <3>1, ZenonT(60) DEF HistType
    <3>4. hist'.ran = hist.ran /\ hist'.passed = q /\ hist'.clean = hist.clean
      BY <3>3
    <3>5. hist' \in HistType
      BY <2>1, <3>1, <3>3, <3>4, SMTT(60) DEF HistType
    <3> QED
      BY <2>1, <3>2, <3>4, <3>5
  <2> QED
    BY <1>1, <2>2, <2>3, SMTT(60)
<1>5. /\ pc = "accept_candidate" /\ pc' # "unwind" => "candidate" \in hist'.passed
      /\ pc = "accept_rollback" /\ pc' # "unwind" => "rollback" \in hist'.passed
  BY <1>4 DEF BinaryOf
<1>6. pc' \in GatewayStages \cup {"unwind"}
  <2>1. CASE Fail
    BY <2>1 DEF Fail
  <2>2. CASE Proceed
    <3>1. pc' = Stages[Place(pc) + 1]
      BY <1>2, <2>2, Order, ProcessStages DEF Proceed
    <3>2. Place(pc) \in {25, 26, 27, 33, 34, 35}
      BY <1>1, Places, SMTT(60)
    <3>3. pc' \in {"reject_candidate", "accept_candidate", "stop_candidate",
                   "reject_rollback", "accept_rollback", "stop_rollback"}
      BY <3>1, <3>2, Named
    <3> QED
      BY <3>3, SMTT(60) DEF GatewayStages
  <2> QED
    BY <1>1, <2>1, <2>2
<1>7. GroupInv' /\ group' \in GroupType
  <2>1. pc \notin ChildStages
    BY <1>2, ProcessStages, ZenonT(60)
  <2> QED
    BY <1>1, <1>6, <2>1, SMTT(60) DEF IInv, GroupInv, DrillType
<1> QED
  BY <1>1, <1>2, <1>3, <1>4, <1>5, <1>7, ProcessStep, SMTT(60)

(* stop: the group of the gateway is gone. *)
LEMMA StopGatewayStep ==
  ASSUME IInv, StopGateway
  PROVE  IInv'
<1>1. /\ pc \in {"stop_candidate", "stop_rollback"} /\ (Proceed \/ Fail) /\ group' = NoGroup
      /\ treeVars' = treeVars /\ env' = env /\ tmp' = tmp /\ mem' = mem /\ hist' = hist
  BY DEF StopGateway, StageSame
<1>2. pc \in GatewayStages /\ pc \notin {"accept_candidate", "accept_rollback"}
  BY <1>1 DEF GatewayStages
<1>3. MemKept /\ GroupInv' /\ group' \in GroupType
  BY <1>1, MemSame, NoGroupKept, SMTT(60) DEF IInv
<1>4. hist' \in HistType /\ hist'.ran \subseteq {"locked"}
  BY <1>1, ZenonT(60) DEF IInv, DrillType, SealedInv
<1> QED
  BY <1>1, <1>2, <1>3, <1>4, ProcessStep, SMTT(60)
----------------------------------------------------------------------------
(* The two inspections.                                                    *)

(* A step of the inspection, or of somebody who edits the worktree. *)
LEMMA TreeStep ==
  ASSUME IInv, TreeInv', UNCHANGED drillVars, insp'.pc # "idle" => pc \in {"inspect", "reinspect"}
  PROVE  IInv'
<1>1. /\ pc' = pc /\ env' = env /\ mem' = mem /\ tmp' = tmp /\ group' = group /\ out' = out
      /\ hist' = hist
  BY ZenonT(60) DEF drillVars
<1>2. /\ env' \in EnvType /\ tmp' \in TmpType /\ group' \in GroupType /\ hist' \in HistType
      /\ hist'.ran \subseteq {"locked"}
  BY <1>1, ZenonT(60) DEF IInv, DrillType, SealedInv
<1>3. group' # NoGroup => group'.exe # "none" /\ group # NoGroup
  BY <1>1 DEF IInv, GroupInv
<1> QED
  BY <1>1, <1>2, <1>3, StillStep, SMTT(60)

(* An inspection takes steps only after it has begun. *)
LEMMA InspectionStarts ==
  ASSUME IInv, InspectionStep(env.cancelled)
  PROVE  insp.pc # "idle"
<1>1. OpenCandidateRepository \/ GitIdentity(env.cancelled) \/ ConcludeInspection \/ InspectionError
        => insp.pc # "idle"
  BY DEF OpenCandidateRepository, GitIdentity, ConcludeInspection, InspectionError
<1>2. /\ EnterDirectory(env.cancelled) => Doing("enter")
      /\ LeaveDirectory => Doing("leave")
      /\ OpenEntry(env.cancelled) => Doing("open")
      /\ ReadEntry => Doing("read")
  BY Zenon DEF EnterDirectory, LeaveDirectory, OpenEntry, ReadEntry
<1>3. \A op \in {"enter", "leave", "open", "read"} : Doing(op) => insp.pc # "idle"
  BY DEF Doing
<1> QED
  BY <1>1, <1>2, <1>3 DEF InspectionStep

(* The steps of an inspection keep the invariant of the drill. *)
LEMMA InspectStepKeeps ==
  ASSUME Listable, IInv, StartInspection \/ InspectStep
  PROVE  IInv'
<1>1. CASE StartInspection
  <2>1. TreeInv'
    BY <1>1, BeginInspectionStep DEF StartInspection, IInv
  <2> QED
    BY <1>1, <2>1, TreeStep DEF StartInspection
<1>2. CASE InspectStep
  <2>1. TreeInv'
    BY <1>2, InspectionStepKeeps, ZenonT(60) DEF InspectStep, IInv
  <2>2. pc \in {"inspect", "reinspect"}
    BY <1>2, InspectionStarts, SMTT(60) DEF InspectStep, IInv, CleanInv
  <2> QED
    BY <1>2, <2>1, <2>2, TreeStep DEF InspectStep
<1> QED
  BY <1>1, <1>2

(* What appending does to a sequence. *)
LEMMA Appended ==
  ASSUME NEW S, NEW s \in Seq(S), NEW x \in S
  PROVE  /\ Append(s, x) \in Seq(S) /\ Len(Append(s, x)) = Len(s) + 1
         /\ Append(s, x)[Len(s) + 1] = x
         /\ \A i \in 1 .. Len(s) : Append(s, x)[i] = s[i]
OBVIOUS

(* What an inspection has shown is recorded. *)
LEMMA Shown ==
  ASSUME hist \in HistType, NEW B \in BOOLEAN, hist' = [hist EXCEPT !.clean = Append(@, B)]
  PROVE  /\ hist' \in HistType /\ hist'.ran = hist.ran /\ hist'.passed = hist.passed
         /\ Len(hist'.clean) = Len(hist.clean) + 1
         /\ hist'.clean[Len(hist.clean) + 1] = B
         /\ \A i \in 1 .. Len(hist.clean) : hist'.clean[i] = hist.clean[i]
<1> DEFINE t == Append(hist.clean, B)
<1>1. hist.clean \in Seq(BOOLEAN)
  BY DEF HistType
<1>2. PICK S : S = BOOLEAN
  OBVIOUS
<1>3. /\ t \in Seq(BOOLEAN) /\ Len(t) = Len(hist.clean) + 1 /\ t[Len(hist.clean) + 1] = B
      /\ \A i \in 1 .. Len(hist.clean) : t[i] = hist.clean[i]
  <2>1. hist.clean \in Seq(S) /\ B \in S
    BY <1>1, <1>2, Zenon
  <2>2. /\ t \in Seq(S) /\ Len(t) = Len(hist.clean) + 1 /\ t[Len(hist.clean) + 1] = B
        /\ \A i \in 1 .. Len(hist.clean) : t[i] = hist.clean[i]
    BY <2>1, Appended
  <2> QED
    BY <1>2, <2>2, Zenon
<1>4. hist' = [hist EXCEPT !.clean = t]
  BY DEF HistType
<1> HIDE DEF t
<1>5. hist' \in [ran : {hist.ran}, passed : {hist.passed}, clean : {t}]
  BY <1>4, ZenonT(60) DEF HistType
<1>6. hist'.ran = hist.ran /\ hist'.passed = hist.passed /\ hist'.clean = t
  BY <1>5
<1>7. hist' \in HistType
  BY <1>3, <1>5, <1>6 DEF HistType
<1> QED
  BY <1>3, <1>6, <1>7

(* The memory of run after an inspection. *)
LEMMA Inspected ==
  ASSUME DrillType, insp \in InspType(insp),
         mem' = [mem EXCEPT !.dirty = insp.dirty, !.snap = insp.snap]
  PROVE  /\ (mem \in MemType)' /\ mem'.dirty = insp.dirty /\ mem'.sealed = mem.sealed
         /\ mem'.store = mem.store /\ mem'.config = mem.config /\ mem'.deferred = mem.deferred
<1>1. mem \in MemType /\ insp.dirty \in BOOLEAN
  BY DEF DrillType, InspType
<1>2. mem' \in [deferred : {mem.deferred}, dirty : {insp.dirty}, snap : {insp.snap},
                copy : {mem.copy}, sealed : {mem.sealed}, store : {mem.store},
                backup : {mem.backup}, config : {mem.config}]
  BY <1>1, ZenonT(60) DEF MemType
<1>3. /\ mem'.dirty = insp.dirty /\ mem'.sealed = mem.sealed /\ mem'.store = mem.store
      /\ mem'.config = mem.config /\ mem'.deferred = mem.deferred /\ mem'.snap = insp.snap
  BY <1>2
<1>4. (mem \in MemType)'
  BY <1>1, <1>2, <1>3, ZenonT(60) DEF MemType
<1> QED
  BY <1>3, <1>4

(* inspectCandidateIdentityContext returns: what it has shown is recorded, *)
(* and the second time it is compared with the first.                      *)
LEMMA EndInspectionStep ==
  ASSUME IInv, EndInspection
  PROVE  IInv'
<1> DEFINE B == Blobs \subseteq witnessed
<1>1. /\ insp.pc \in {"done", "failed"} /\ insp' = Idle
      /\ ProceedIf(insp.pc = "done" /\ (pc = "reinspect" =>
           insp.dirty = mem.dirty /\ insp.snap = mem.snap))
      /\ mem' = [mem EXCEPT !.dirty = insp.dirty, !.snap = insp.snap]
      /\ hist' = [hist EXCEPT !.clean = Append(@, B)]
      /\ ForgetVersions /\ edits' = edits /\ env' = env /\ tmp' = tmp /\ group' = group
  BY DEF EndInspection
<1>2. /\ pc \in {"inspect", "reinspect"} /\ Moved
      /\ pc' # "unwind" => insp.pc = "done" /\ (pc = "reinspect" => insp.dirty = mem.dirty)
  <2>1. pc \in {"inspect", "reinspect"}
    BY <1>1 DEF IInv, CleanInv
  <2>2. pc \in StageNames \ {"publish"}
    BY <2>1, AreStages
  <2> QED
    BY <1>1, <2>1, <2>2 DEF Moved, ProceedIf, Fail
<1>3. TreeInv'
  BY <1>1, InspectionEnds DEF IInv
<1>4. /\ (mem \in MemType)' /\ mem'.dirty = insp.dirty /\ mem'.sealed = mem.sealed
      /\ mem'.store = mem.store /\ mem'.config = mem.config /\ mem'.deferred = mem.deferred
  BY <1>1, Inspected DEF IInv, TreeInv
<1>5. /\ hist' \in HistType /\ hist'.ran = hist.ran /\ hist'.passed = hist.passed
      /\ Len(hist'.clean) = Len(hist.clean) + 1
      /\ hist'.clean[Len(hist.clean) + 1] = B
      /\ \A i \in 1 .. Len(hist.clean) : hist'.clean[i] = hist.clean[i]
  <2>1. hist \in HistType /\ B \in BOOLEAN
    BY DEF IInv, DrillType
  <2> HIDE DEF B
  <2> QED
    BY <1>1, <2>1, Shown, ZenonT(60)
<1>6. group' = NoGroup
  <2>1. pc \notin ChildStages \cup GatewayStages \cup {"unwind"}
    BY <1>2, SMTT(60) DEF ChildStages, GatewayStages
  <2> QED
    BY <1>1, <2>1, NoProcess
<1>7. DrillType'
  <2>1. env' \in EnvType /\ tmp' \in TmpType
    BY <1>1, ZenonT(60) DEF IInv, DrillType
  <2>2. pc' \in StageNames \cup {"unwind", "exited"} /\ out' \in OutType
    BY <1>2, Moves DEF IInv
  <2>3. group' \in GroupType
    BY <1>6, NoGroupKept
  <2> QED
    BY <1>4, <1>5, <2>1, <2>2, <2>3, ZenonT(60)
    DEF DrillType, EnvType, TmpType, GroupType, OutType, HistType
<1>8. RootInv' /\ StoreInv'
  BY <1>1, <1>2, <1>4, RootStep, StoreStep, SMTT(60)
<1>9. SealedInv'
  BY <1>2, <1>4, <1>5, SealedStep, ZenonT(60) DEF IInv, SealedInv
<1>10. SummaryInv'
  BY <1>2, <1>5, SummaryStep
<1>11. insp'.pc = "idle" /\ out'.class = "none"
  BY <1>1, <1>2, Moves, ZenonT(60) DEF IInv, Idle
<1>12. CleanInv'
  <2>1. CASE pc' = "unwind"
    BY <1>11, <2>1, AreStages, SMTT(60) DEF CleanInv, Past
  <2>2. CASE pc' # "unwind"
    <3>1. ~mem'.dirty => hist'.clean[Len(hist.clean) + 1]
      BY <1>2, <1>4, <1>5, <2>2, ZenonT(60) DEF IInv, TreeInv
    <3>2. Place(pc') = Place(pc) + 1 /\ pc' \in StageNames
      BY <1>2, <2>2, Moves DEF IInv
    <3>3. CASE pc = "inspect"
      <4>1. Place(pc') = 3
        BY <3>2, <3>3, Places, SMTT(60)
      <4>2. ~Past("reinspect")' /\ pc' \notin {"input", "inspect"}
        BY <4>1, Places, SMTT(60) DEF Past
      <4>3. Len(hist.clean) = 0
        BY <3>3, SMTT(60) DEF IInv, CleanInv
      <4>4. Len(hist'.clean) = 1 /\ (~mem'.dirty => hist'.clean[1])
        BY <1>5, <3>1, <4>3, SMTT(60)
      <4> QED
        BY <1>11, <4>2, <4>4, ZenonT(60) DEF CleanInv
    <3>4. CASE pc = "reinspect"
      <4>1. Place(pc') = 39
        BY <3>2, <3>4, Places, SMTT(60)
      <4>2. Past("reinspect")' /\ pc' \notin {"input", "inspect"}
        BY <3>2, <4>1, Places, SMTT(60) DEF Past
      <4>3. Past("inspect") /\ ~Past("reinspect")
        BY <3>4, Places, AreStages, SMTT(60) DEF Past
      <4>4. Len(hist.clean) = 1 /\ (~mem.dirty => hist.clean[1])
        BY <4>3 DEF IInv, CleanInv
      <4>5. mem'.dirty = mem.dirty
        BY <1>2, <1>4, <2>2, <3>4, ZenonT(60)
      <4>6. Len(hist'.clean) = 2 /\ hist'.clean[1] = hist.clean[1]
        BY <1>5, <4>4
      <4>7. Len(hist.clean) + 1 = 2
        BY <4>4
      <4>8. ~mem'.dirty => hist'.clean[1] /\ hist'.clean[2]
        BY <3>1, <4>4, <4>5, <4>6, <4>7, Zenon
      <4> QED
        BY <1>11, <4>2, <4>6, <4>8, ZenonT(60) DEF CleanInv
    <3> QED
      BY <1>2, <3>3, <3>4, SMTT(60)
  <2> QED
    BY <2>1, <2>2
<1>13. FinalMeansClean'
  BY <1>11, ZenonT(60) DEF FinalMeansClean
<1> QED
  BY <1>3, <1>6, <1>7, <1>8, <1>9, <1>10, <1>12, <1>13, NoGroupKept DEF IInv
----------------------------------------------------------------------------
(* The world.                                                              *)

(* A process that is alive is in a group that run knows. *)
LEMMA AliveGroup ==
  ASSUME IInv, Alive
  PROVE  group # NoGroup /\ group.exe # "none" /\ group \in GroupType
BY SMTT(60) DEF IInv, GroupInv, Alive, NoGroup, DrillType

(* A step of the world leaves run where it is. *)
LEMMA WorldStep ==
  ASSUME IInv, treeVars' = treeVars, pc' = pc, mem' = mem, out' = out, hist' = hist,
         env' \in EnvType, tmp' \in TmpType, group' \in GroupType,
         tmp' = tmp \/ (group # NoGroup /\ tmp'.root = tmp.root),
         group' # NoGroup => group'.exe # "none" /\ group # NoGroup
  PROVE  IInv'
<1>1. TreeInv' /\ insp' = insp
  BY TreeUnchanged, ZenonT(60) DEF IInv, treeVars
<1>2. hist' \in HistType /\ hist'.ran \subseteq {"locked"}
  BY ZenonT(60) DEF IInv, DrillType, SealedInv
<1>3. insp'.pc # "idle" => pc \in {"inspect", "reinspect"}
  BY <1>1, ZenonT(60) DEF IInv, CleanInv
<1> QED
  BY <1>1, <1>2, <1>3, StillStep, ZenonT(60)

(* A process forks or exits. *)
LEMMA GroupSteps ==
  ASSUME IInv, ProcessForks \/ ProcessExits
  PROVE  IInv'
<1>1. /\ Alive /\ treeVars' = treeVars /\ pc' = pc /\ mem' = mem /\ out' = out /\ hist' = hist
      /\ env' = env /\ tmp' = tmp
  BY DEF ProcessForks, ProcessExits
<1>2. group # NoGroup /\ group.exe # "none" /\ group \in GroupType
  BY <1>1, AliveGroup
<1>3. group' \in GroupType /\ group'.exe = group.exe
  <2>1. CASE group' \in {[group EXCEPT !.others = o] : o \in {"quiet", "holding"}}
    <3>1. PICK o \in {"quiet", "holding"} : group' = [group EXCEPT !.others = o]
      BY <2>1
    <3>2. group' \in [exe : {group.exe}, leader : BOOLEAN, others : {o}]
      BY <1>2, <3>1, ZenonT(60) DEF GroupType
    <3> QED
      BY <1>2, <3>2 DEF GroupType
  <2>2. CASE group' = [group EXCEPT !.leader = FALSE]
    <3>1. group' \in [exe : {group.exe}, leader : {FALSE}, others : {"none", "quiet", "holding"}]
      BY <1>2, <2>2, ZenonT(60) DEF GroupType
    <3> QED
      BY <1>2, <3>1, ZenonT(60) DEF GroupType
  <2>3. CASE group' = [group EXCEPT !.others = "none"]
    <3>1. group' \in [exe : {group.exe}, leader : BOOLEAN, others : {"none"}]
      BY <1>2, <2>3, ZenonT(60) DEF GroupType
    <3> QED
      BY <1>2, <3>1 DEF GroupType
  <2> QED
    BY <2>1, <2>2, <2>3, SMTT(60) DEF ProcessForks, ProcessExits
<1>4. env' \in EnvType /\ tmp' \in TmpType
  BY <1>1 DEF IInv, DrillType
<1> QED
  BY <1>1, <1>2, <1>3, <1>4, WorldStep, SMTT(60)

(* A process writes to the temporary directory, which is there as long as  *)
(* it lives.                                                               *)
LEMMA ProcessWritesStep ==
  ASSUME IInv, ProcessWrites
  PROVE  IInv'
<1>1. /\ Alive /\ treeVars' = treeVars /\ pc' = pc /\ mem' = mem /\ out' = out /\ hist' = hist
      /\ env' = env /\ group' = group
  BY SMTT(60) DEF ProcessWrites
<1>2. PICK f \in Files, c \in Contents : tmp' = [tmp EXCEPT !.files[f] = c, !.writes = @ + 1]
  BY ZenonT(60) DEF ProcessWrites
<1>3. group # NoGroup /\ group.exe # "none" /\ group' \in GroupType
  BY <1>1, AliveGroup
<1>4. tmp' \in TmpType /\ tmp'.root = tmp.root
  <2> DEFINE g == [tmp.files EXCEPT ![f] = c]
             n == tmp.writes + 1
  <2>1. tmp \in TmpType /\ g \in [Files -> Contents] /\ n \in Nat
    BY DEF IInv, DrillType, TmpType
  <2>2. tmp' = [tmp EXCEPT !.files = g, !.writes = n]
    BY <1>2, <2>1 DEF TmpType
  <2> HIDE DEF g, n
  <2>3. tmp' \in [root : {tmp.root}, files : {g}, writes : {n}]
    BY <2>1, <2>2, ZenonT(60) DEF TmpType
  <2> QED
    BY <2>1, <2>3 DEF TmpType
<1>5. env' \in EnvType
  BY <1>1, ZenonT(60) DEF IInv, DrillType
<1> QED
  BY <1>1, <1>3, <1>4, <1>5, WorldStep

(* An input binary is replaced or written. *)
LEMMA SwapInputStep ==
  ASSUME IInv, SwapInput
  PROVE  IInv'
<1>1. /\ treeVars' = treeVars /\ pc' = pc /\ mem' = mem /\ out' = out /\ hist' = hist
      /\ tmp' = tmp /\ group' = group
  BY SMTT(60) DEF SwapInput
<1>2. env \in EnvType /\ tmp' \in TmpType /\ group' \in GroupType
      /\ (group' # NoGroup => group'.exe # "none" /\ group # NoGroup)
  BY <1>1, ZenonT(60) DEF IInv, DrillType, GroupInv
<1>3. PICK b \in Bins, data \in {"locked", "other"}, new \in {"ino", "ver", "same"} :
        env' = [env EXCEPT !.swaps = env.swaps + 1, !.inputs[b] =
          [data |-> data, ino |-> IF new = "ino" THEN env.swaps + 1 ELSE env.inputs[b].ino,
           ver |-> IF new = "same" THEN env.inputs[b].ver ELSE env.swaps + 1]]
  BY ZenonT(60) DEF SwapInput
<1>4. env' \in EnvType
  <2> DEFINE n == env.swaps + 1
             i == [data |-> data, ino |-> IF new = "ino" THEN n ELSE env.inputs[b].ino,
                   ver |-> IF new = "same" THEN env.inputs[b].ver ELSE n]
             g == [env.inputs EXCEPT ![b] = i]
  <2>1. n \in Nat /\ env.inputs[b] \in AnyInput /\ env.inputs \in [Bins -> AnyInput]
    BY <1>2, SMTT(60) DEF EnvType
  <2>2. i \in AnyInput
    BY <2>1, ZenonT(60) DEF AnyInput, Binaries
  <2>3. env' = [env EXCEPT !.swaps = n, !.inputs = g]
    BY <1>2, <1>3, ZenonT(60) DEF EnvType
  <2> HIDE DEF i
  <2>4. g \in [Bins -> AnyInput]
    BY <2>1, <2>2
  <2> HIDE DEF g, n
  <2> QED
    BY <1>2, <2>1, <2>3, <2>4, ZenonT(60) DEF EnvType
<1> QED
  BY <1>1, <1>2, <1>4, WorldStep, SMTT(60)

(* A gateway calls the provider, or the context is cancelled. *)
LEMMA OtherWorldSteps ==
  ASSUME IInv, CallProvider \/ Cancel
  PROVE  IInv'
<1>1. /\ treeVars' = treeVars /\ pc' = pc /\ mem' = mem /\ out' = out /\ hist' = hist
      /\ tmp' = tmp /\ group' = group
      /\ env' = env \/ env' = [env EXCEPT !.cancelled = TRUE]
  BY DEF CallProvider, Cancel
<1>2. env \in EnvType /\ tmp' \in TmpType /\ group' \in GroupType
      /\ (group' # NoGroup => group'.exe # "none" /\ group # NoGroup)
  BY <1>1 DEF IInv, DrillType, GroupInv
<1>3. [env EXCEPT !.cancelled = TRUE] \in EnvType
  BY <1>2, ZenonT(60) DEF EnvType
<1> QED
  BY <1>1, <1>2, <1>3, WorldStep, ZenonT(60)

(* The worktree is edited during an inspection. *)
LEMMA EditWorktreeStep ==
  ASSUME IInv, EditWorktree
  PROVE  IInv'
<1>1. TreeInv'
  BY EditorStep DEF EditWorktree, IInv
<1> QED
  BY <1>1, TreeStep DEF EditWorktree
----------------------------------------------------------------------------

(* The invariant holds when run is called. *)
LEMMA Initially == Init => IInv
<1> SUFFICES ASSUME Init PROVE IInv
  OBVIOUS
<1>1. TreeInv
  BY TreeInitially DEF Init
<1>2. /\ pc = "input" /\ group = NoGroup /\ tmp = Removed
      /\ mem = [deferred |-> <<>>, dirty |-> FALSE, snap |-> <<>>, copy |-> NoInput,
                sealed |-> [b \in Bins |-> "none"],
                store |-> "none", backup |-> "none", config |-> "none"]
      /\ out = [class |-> "none", exit |-> "none"]
      /\ hist = [ran |-> {}, passed |-> {}, clean |-> <<>>]
  BY DEF Init, Removed
<1>3. DrillType
  <2>1. pc \in StageNames
    BY <1>2, AreStages, ZenonT(60)
  <2>2. mem \in MemType
    <3>1. NoInput \in AnyInput /\ "none" \in Binaries /\ "none" \in Contents
      BY ZenonT(60) DEF AnyInput, NoInput, Binaries, Contents
    <3>2. <<>> \in Seq(Deferrals)
      OBVIOUS
    <3> QED
      BY <1>2, <3>1, <3>2, ZenonT(60) DEF MemType
  <2>3. env \in EnvType
    BY SMTT(60) DEF Init, EnvType, AnyInput, NoInput, Binaries
  <2>4. tmp \in TmpType /\ group \in GroupType
    BY <1>2, ZenonT(60) DEF TmpType, Removed, Contents, GroupType, NoGroup, Binaries
  <2>5. out \in OutType /\ hist \in HistType
    <3>1. <<>> \in Seq(BOOLEAN)
      OBVIOUS
    <3> QED
      BY <1>2, <3>1, ZenonT(60) DEF OutType, HistType
  <2> QED
    BY <2>1, <2>2, <2>3, <2>4, <2>5, SMTT(60) DEF DrillType
<1>4. \A s \in {"root", "digests", "store", "configs", "accept_candidate", "accept_rollback",
                 "inspect", "reinspect"} : ~Past(s)
  <2>1. /\ Place(pc) = 1 /\ Place("root") = 4 /\ Place("digests") = 9 /\ Place("store") = 15
        /\ Place("configs") = 16 /\ Place("accept_candidate") = 27
        /\ Place("accept_rollback") = 35 /\ Place("inspect") = 2 /\ Place("reinspect") = 38
    BY <1>2, Places, ZenonT(60)
  <2> QED
    BY <2>1, SMTT(60) DEF Past
<1>5. GroupInv /\ RootInv /\ StoreInv
  BY <1>2, <1>4, ZenonT(60) DEF GroupInv, RootInv, StoreInv
<1>6. SealedInv
  BY <1>2, <1>4, ZenonT(60) DEF SealedInv, NoCopies
<1>7. SummaryInv /\ FinalMeansClean
  BY <1>2, <1>4, ZenonT(60) DEF SummaryInv, FinalMeansClean
<1>8. CleanInv
  <2>1. insp.pc = "idle"
    BY DEF Init, TreeInit, Idle
  <2> QED
    BY <1>2, <1>4, <2>1, ZenonT(60) DEF CleanInv
<1> QED
  BY <1>1, <1>3, <1>5, <1>6, <1>7, <1>8, ZenonT(60) DEF IInv

(* Every step of run and of the world keeps the invariant. *)
LEMMA Inductive == Listable /\ IInv /\ [Next]_vars => IInv'
<1> SUFFICES ASSUME Listable, IInv, [Next]_vars PROVE IInv'
  OBVIOUS
<1>1. CASE RunStep
  <2>1. CASE ReadInputLock \/ CheckBuildInfo \/ CheckSealed \/ CheckRunner
    BY <2>1, ExamineStep DEF ReadInputLock, CheckBuildInfo, CheckSealed, CheckRunner
  <2>2. CASE SnapshotRunner \/ MakeSecrets \/ StartProvider \/ ReadToken
    BY <2>2, AcquireStep DEF SnapshotRunner, MakeSecrets, ReadToken
  <2>3. CASE StartInspection \/ InspectStep \/ EndInspection
    BY <2>3, InspectStepKeeps, EndInspectionStep
  <2>4. CASE MakeRoot \/ OpenInput \/ SealInput \/ MatchDigests \/ MakeStore \/ WriteConfigs
    BY <2>4, MakeRootStep, OpenInputStep, SealInputStep, MatchDigestsStep, MakeStoreStep,
       WriteConfigsStep, ZenonT(60)
  <2>5. CASE RunChild \/ ChildReturned \/ ChildKilled \/ CheckBackup
    BY <2>5, RunChildStep, ChildEndsStep, CheckBackupStep
  <2>6. CASE StartGateway \/ SmokeHealth \/ SmokeReject \/ SmokeAccept \/ StopGateway
    BY <2>6, StartGatewayStep, SmokeStep, StopGatewayStep, SMTT(60)
  <2>7. CASE RestoreStore \/ RestoreConfig \/ CheckRestored
    BY <2>7, RestoreStep, CheckRestoredStep
  <2>8. CASE Cleanup \/ Publish \/ Unwind \/ Exit
    BY <2>8, CleanupStep, PublishStep, UnwindStep, ExitStep, SMTT(60)
  <2> QED
    BY <1>1, <2>1, <2>2, <2>3, <2>4, <2>5, <2>6, <2>7, <2>8, ZenonT(60) DEF RunStep
<1>2. CASE World
  BY <1>2, GroupSteps, ProcessWritesStep, SwapInputStep, OtherWorldSteps, EditWorktreeStep, ZenonT(60)
  DEF World
<1>3. CASE UNCHANGED vars
  <2>1. treeVars' = treeVars /\ drillVars' = drillVars
    BY <1>3 DEF vars
  <2>2. TreeInv' /\ insp' = insp
    BY <2>1, TreeUnchanged, SMTT(60) DEF IInv, treeVars
  <2>3. insp'.pc # "idle" => pc \in {"inspect", "reinspect"}
    BY <2>2, ZenonT(60) DEF IInv, CleanInv
  <2> QED
    BY <2>1, <2>2, <2>3, TreeStep, SMTT(60)
<1> QED
  BY <1>1, <1>2, <1>3 DEF Next, Exited

INSTANCE FiniteSetTheorems

(* The listing of a directory has all its entries, because Paths is finite. *)
LEMMA Listing == Listable
<1> SUFFICES ASSUME NEW S \in SUBSET Paths
             PROVE  /\ SortedNames(S) \in Seq(S)
                    /\ \A p \in S : \E i \in 1 .. Len(SortedNames(S)) : SortedNames(S)[i] = p
  BY DEF Listable
<1>1. IsFiniteSet(S)
  BY TreeAssumption, FS_Subset
<1>2. Cardinality(S) \in Nat /\ ExistsBijection(1 .. Cardinality(S), S)
  BY <1>1, FS_CardinalityType
<1>3. PICK s \in [1 .. Cardinality(S) -> S] : \A p \in S : \E i \in 1 .. Cardinality(S) : s[i] = p
  BY <1>2 DEF ExistsBijection, Bijection, Injection, Surjection
<1>4. {s[i] : i \in DOMAIN s} = S
  BY <1>3
<1>5. /\ SortedNames(S) \in [1 .. Cardinality(S) -> S]
      /\ {SortedNames(S)[i] : i \in DOMAIN SortedNames(S)} = S
  BY <1>4, ZenonT(60) DEF SortedNames
<1> QED
  BY <1>2, <1>5

(* The invariant holds of run (aegis-rollback-drill/main.go) in any world. *)
THEOREM Invariant == Spec => []IInv
BY Initially, Inductive, Listing, PTL DEF Spec

(* A printed summary is true: writeSummaryAfterCleanup runs after both     *)
(* gateways have served, been stopped, and the directory has been removed. *)
THEOREM SummaryIsTrue == Spec => []EvidenceTrue
<1>1. IInv => EvidenceTrue
  <2>1. group = NoGroup => ~Alive
    BY DEF Alive, NoGroup
  <2> QED
    BY <2>1, ZenonT(60) DEF IInv, SummaryInv, EvidenceTrue
<1> QED
  BY <1>1, Invariant, PTL

(* The class FINAL_CANDIDATE is printed only if each of the two            *)
(* inspections has met every path as the commit has it, whatever was       *)
(* edited meanwhile.                                                       *)
THEOREM FinalIsClean == Spec => []FinalMeansClean
<1>1. IInv => FinalMeansClean
  BY ZenonT(60) DEF IInv
<1> QED
  BY <1>1, Invariant, PTL

(* Whatever is done to the input binaries while they are copied, only      *)
(* contents with the digests of the input lock run (snapshotExecutable and *)
(* the comparison of the digests).                                         *)
THEOREM RunsOnlyLocked == Spec => []OnlyLockedContentRuns
<1>1. IInv => OnlyLockedContentRuns
  BY DEF IInv, SealedInv, OnlyLockedContentRuns
<1> QED
  BY <1>1, Invariant, PTL

(* run leaves no process and no open copy, on every path through its       *)
(* deferred calls, and a process that lives has its directory.             *)
THEOREM LeavesNothing == Spec => []NothingLeft
<1>1. ASSUME IInv PROVE NothingLeft
  <2>1. Alive => group # NoGroup
    BY DEF Alive, NoGroup
  <2>2. pc = "exited" => group = NoGroup
    BY <1>1, NoProcess DEF ChildStages, GatewayStages
  <2> QED
    BY <1>1, <2>1, <2>2, ZenonT(60) DEF NothingLeft, IInv, GroupInv, SealedInv, NoCopies
<1> QED
  BY <1>1, Invariant, PTL

(* The previous release starts on the store and the configuration from     *)
(* before the migration, whatever the processes of the candidate have      *)
(* written.                                                                *)
THEOREM RollsBackToOriginal == Spec => RollbackOnOriginal
<1>1. IInv /\ [Next]_vars =>
        [pc = "start_rollback" /\ pc' = "health_rollback" =>
           tmp.files["restored"] = "legacy" /\ tmp.files["newconfig"] = "config"]_vars
  BY DEF IInv, StoreInv
<1> QED
  BY <1>1, Invariant, PTL DEF Spec, RollbackOnOriginal
=============================================================================
