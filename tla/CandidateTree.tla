--------------------------- MODULE CandidateTree ---------------------------
(***************************************************************************)
(* How the rollback drill inspects the candidate's repository              *)
(* (cmd/aegis-rollback-drill/main.go, inspectCandidateIdentityContext):    *)
(* the repository is opened without following links, git is asked for the  *)
(* commit and its tree, the worktree is walked and compared with the tree, *)
(* and the directories are looked at again.  Meanwhile somebody may edit.  *)
(*                                                                         *)
(* A path has a version, which stands for the time and the size that Stat  *)
(* tells: an edit in place changes it, unless it keeps the size and falls  *)
(* into the same tick of the clock.  A replacement is another file; one    *)
(* that is open stays readable.  An entry that comes or goes changes its   *)
(* directory in the same way.  Contents, sizes and executable bits are one *)
(* value; hashes are injective.                                            *)
(***************************************************************************)
EXTENDS Integers, Sequences, FiniteSets

CONSTANTS
  Paths,         \* the paths below the worktree
  Directories,   \* those of them that are directories
  RootDir,       \* the worktree itself
  Parent,        \* Parent[p]: the directory of a path
  Tree,          \* Tree[p]: what the candidate's commit has at path p
  Data,          \* the contents a path may have
  AllowDirty,    \* the option allow-dirty-iteration
  MaxEntries,    \* maxCandidateWorktreeEntries
  MaxEdits       \* bound of the number of edits

Blobs == Paths \ Directories
Dirs == Directories \cup {RootDir}
NoEntry == [kind |-> "none"]

(* "odd" stands for what the walk refuses by its type or by its name. *)
Kinds == {"file", "link", "odd"}

VARIABLES
  disk,          \* disk[p]: the entry at a path that is not a directory
  dirver,        \* dirver[d]: the version of a directory
  repo,          \* the repository: who the directories are, the layout, HEAD
  edits,         \* the number of edits so far
  insp,          \* the inspection
  witnessed      \* history: the paths that matched the tree during it

treeVars == <<disk, dirver, repo, edits, insp, witnessed>>

(* The paths form a tree: whoever goes from every directory to those in it *)
(* comes from the root to all of them.                                     *)
ASSUME TreeAssumption ==
  /\ IsFiniteSet(Paths) /\ Directories \subseteq Paths /\ RootDir \notin Paths
  /\ Parent \in [Paths -> Dirs]
  /\ \A S \in SUBSET Dirs :
       RootDir \in S /\ (\A d \in Directories : Parent[d] \in S => d \in S) => S = Dirs
  /\ DOMAIN Tree \subseteq Blobs
  /\ \A p \in DOMAIN Tree : Tree[p].kind \in Kinds /\ Tree[p].data \in Data
  /\ AllowDirty \in BOOLEAN /\ MaxEntries \in Nat /\ MaxEdits \in Nat

(* id: the directory that is open; entry: what an open file was when it    *)
(* was opened, and gone: what it was when its path was given to another.   *)
Idle == [pc |-> "idle", id |-> 0, todo |-> <<>>, entry |-> NoEntry, gone |-> NoEntry,
         snap |-> <<>>, dirty |-> FALSE]

Checkout ==
  [p \in Blobs |-> IF p \in DOMAIN Tree
                   THEN [kind |-> Tree[p].kind, data |-> Tree[p].data,
                         safe |-> TRUE, ver |-> 0]
                   ELSE NoEntry]

TreeInit ==
  /\ disk = Checkout
  /\ dirver = [d \in Dirs |-> 0]
  /\ repo = [id |-> 0, layout |-> "plain", head |-> "candidate"]
  /\ edits = 0
  /\ insp = Idle
  /\ witnessed = {}

(* What the tree expects at a path is there. *)
MatchesIn(files, p) ==
  IF p \in DOMAIN Tree
  THEN files[p].kind = Tree[p].kind /\ files[p].data = Tree[p].data
  ELSE files[p] = NoEntry

Matching(files) == {p \in Blobs : MatchesIn(files, p)}
----------------------------------------------------------------------------
(* The editor.  stamp tells whether the edit shows in the metadata.        *)

Edited == edits < MaxEdits /\ edits' = edits + 1

(* Writing to a file in place; changing its permissions always shows. *)
EditWrite(p) ==
  /\ Edited
  /\ disk[p].kind = "file"
  /\ \/ \E data \in Data \ {disk[p].data}, ver \in {disk[p].ver, edits'} :
          disk' = [disk EXCEPT ![p].data = data, ![p].ver = ver]
     \/ disk' = [disk EXCEPT ![p].safe = ~@]
  /\ witnessed' = witnessed \cup Matching(disk')
  /\ UNCHANGED <<dirver, repo, insp>>

(* Creating, replacing or removing an entry; a file that is open stays. *)
Reading(p) == insp.pc = "walk" /\ Head(insp.todo) = [op |-> "read", path |-> p]

EditEntry(p) ==
  /\ Edited
  /\ \E new \in {NoEntry} \cup [kind : Kinds, data : Data, safe : {TRUE}, ver : {0}],
        stamp \in BOOLEAN :
       /\ new = NoEntry => disk[p] # NoEntry
       /\ disk' = [disk EXCEPT ![p] = new]
       /\ dirver' = [dirver EXCEPT ![Parent[p]] = IF stamp THEN edits' ELSE @]
  /\ insp' = IF Reading(p) /\ insp.gone = NoEntry
             THEN [insp EXCEPT !.gone = disk[p]] ELSE insp
  /\ witnessed' = witnessed \cup Matching(disk')
  /\ UNCHANGED repo

(* Another commit is checked out, the directory is replaced, or its object *)
(* storage becomes one that the drill does not support.                    *)
EditRepository ==
  /\ Edited
  /\ \/ \E head \in {"candidate", "other"} : repo' = [repo EXCEPT !.head = head]
     \/ \E layout \in {"plain", "linked", "promisor"} : repo' = [repo EXCEPT !.layout = layout]
     \/ repo' = [repo EXCEPT !.id = edits']
  /\ repo' # repo
  /\ UNCHANGED <<disk, dirver, insp, witnessed>>

Editor == EditRepository \/ \E p \in Blobs : EditWrite(p) \/ EditEntry(p)
----------------------------------------------------------------------------
(* The inspection.  The argument of a step tells whether the context is    *)
(* cancelled, where the code looks at it.                                  *)

InspFail == insp' = [Idle EXCEPT !.pc = "failed"]
TreeSame == UNCHANGED <<disk, dirver, repo, edits, witnessed>>

BeginInspection ==
  /\ insp' = [Idle EXCEPT !.pc = "open"]
  /\ witnessed' = Matching(disk)
  /\ UNCHANGED <<disk, dirver, repo, edits>>

(* No linked git directory, alternates, grafts or promisor packs. *)
RejectUnsafeLayout == repo.layout = "plain"

OpenCandidateRepository ==
  /\ insp.pc = "open"
  /\ IF RejectUnsafeLayout
     THEN insp' = [insp EXCEPT !.pc = "git", !.id = repo.id]
     ELSE InspFail
  /\ TreeSame

(* git runs on the open directories, so it sees another HEAD only if that  *)
(* was changed and not the directory.                                      *)
GitIdentity(cancelled) ==
  /\ insp.pc = "git"
  /\ IF cancelled \/ (repo.id = insp.id /\ (repo.head # "candidate" \/ repo.layout = "promisor"))
     THEN InspFail
     ELSE insp' = [insp EXCEPT !.pc = "walk", !.todo = <<[op |-> "enter", dir |-> RootDir]>>]
  /\ TreeSame

Present(d) == {p \in Paths : Parent[p] = d /\ (p \in Directories \/ disk[p] # NoEntry)}

(* The names of a directory in some fixed order, which the walk sorts. *)
SortedNames(S) == CHOOSE s \in [1 .. Cardinality(S) -> S] : {s[i] : i \in DOMAIN s} = S

Visit(p) == IF p \in Directories THEN [op |-> "enter", dir |-> p]
                                 ELSE [op |-> "open", path |-> p]

SnapAdd(p, e) == [q \in DOMAIN insp.snap \cup {p} |-> IF q = p THEN e ELSE insp.snap[q]]
Full == Cardinality(DOMAIN insp.snap) >= MaxEntries

Work == Head(insp.todo)
Doing(op) == insp.pc = "walk" /\ Work.op = op

(* walkCandidateDirectory looks at the directory and lists it; after its   *)
(* entries it looks at the directory again.                                *)
EnterDirectory(cancelled) ==
  /\ Doing("enter")
  /\ LET d == Work.dir
         names == SortedNames(Present(d))
         snap == IF d = RootDir THEN insp.snap ELSE SnapAdd(d, [kind |-> "dir"])
     IN  insp' = IF cancelled \/ (d # RootDir /\ Full) THEN [Idle EXCEPT !.pc = "failed"]
                 ELSE [insp EXCEPT !.snap = snap,
                         !.todo = [i \in 1 .. Len(names) |-> Visit(names[i])]
                                  \o <<[op |-> "leave", dir |-> d, ver |-> dirver[d]]>>
                                  \o Tail(@)]
  /\ TreeSame

LeaveDirectory ==
  /\ Doing("leave")
  /\ IF dirver[Work.dir] # Work.ver
     THEN InspFail
     ELSE LET rest == Tail(insp.todo)
          IN  insp' = [insp EXCEPT !.todo = rest,
                         !.pc = IF rest = <<>> THEN "conclude" ELSE "walk"]
  /\ TreeSame

(* A listed entry is looked at and opened; it may be gone by now. *)
OpenEntry(cancelled) ==
  /\ Doing("open")
  /\ LET e == disk[Work.path]
     IN  IF cancelled \/ e = NoEntry \/ e.kind = "odd" \/ ~e.safe
         THEN InspFail
         ELSE insp' = [insp EXCEPT !.entry = e,
                         !.todo = <<[op |-> "read", path |-> Work.path]>> \o Tail(@)]
  /\ TreeSame

(* It is read and looked at again.  A file is read through its descriptor, *)
(* also after its path was given to another; a link is read by its name.   *)
ReadEntry ==
  /\ Doing("read")
  /\ LET old == insp.entry
         now == IF insp.gone = NoEntry THEN disk[Work.path] ELSE insp.gone
         stable == /\ now.ver = old.ver /\ now.safe = old.safe
                   /\ old.kind = "link" => insp.gone = NoEntry
     IN  IF ~stable \/ Full
         THEN InspFail
         ELSE \E data \in {old.data, now.data} :
                insp' = [insp EXCEPT !.entry = NoEntry, !.gone = NoEntry, !.todo = Tail(@),
                           !.snap = SnapAdd(Work.path, [kind |-> old.kind, data |-> data])]
  /\ TreeSame

(* compareCandidateTree: all that is expected is there and nothing else. *)
CompareCandidateTree_Untracked(snap) ==
  \E p \in DOMAIN Tree : p \notin DOMAIN snap \/ snap[p] # Tree[p]

CompareCandidateTree(snap) ==
  \/ \E p \in DOMAIN Tree : p \notin DOMAIN snap \/ snap[p] # Tree[p]
  \/ \E p \in DOMAIN Tree : Parent[p] # RootDir /\ Parent[p] \notin DOMAIN snap
  \/ \E p \in DOMAIN snap :
       IF p \in Directories THEN \A q \in DOMAIN Tree : Parent[q] # p
       ELSE p \notin DOMAIN Tree

(* The path still leads to the directory that was walked, and its git      *)
(* directory is still one of the supported kind.                           *)
VerifyRepository == repo.id = insp.id /\ RejectUnsafeLayout

ConcludeInspection ==
  /\ insp.pc = "conclude"
  /\ LET dirty == CompareCandidateTree(insp.snap)
     IN  IF ~VerifyRepository \/ (dirty /\ ~AllowDirty)
         THEN InspFail
         ELSE insp' = [Idle EXCEPT !.pc = "done", !.dirty = dirty, !.snap = insp.snap]
  /\ TreeSame

(* A system call fails, or an entry changes between being looked at and    *)
(* being opened.                                                           *)
InspectionError ==
  /\ insp.pc \in {"open", "git", "walk", "conclude"}
  /\ InspFail
  /\ TreeSame

InspectionStep(cancelled) ==
  \/ OpenCandidateRepository \/ GitIdentity(cancelled)
  \/ EnterDirectory(cancelled) \/ LeaveDirectory
  \/ OpenEntry(cancelled) \/ ReadEntry
  \/ ConcludeInspection \/ InspectionError
----------------------------------------------------------------------------

(* Versions are compared within one inspection only, so they start again   *)
(* at zero after it.                                                       *)
ForgetVersions ==
  /\ disk' = [p \in Blobs |-> IF disk[p] = NoEntry THEN NoEntry
                              ELSE [disk[p] EXCEPT !.ver = 0]]
  /\ dirver' = [d \in Dirs |-> 0]
  /\ repo' = [repo EXCEPT !.id = 0]
=============================================================================
