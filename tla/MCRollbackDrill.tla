-------------------------- MODULE MCRollbackDrill --------------------------
(***************************************************************************)
(* The drill on a worktree with one directory, which holds a file, and two *)
(* paths that the commit does not have.                                    *)
(***************************************************************************)
EXTENDS RollbackDrill

MCPaths == {"dir", "dir/file", "dir/new", "new"}
MCDirectories == {"dir"}
MCParent == [p \in MCPaths |-> IF p \in {"dir/file", "dir/new"} THEN "dir" ELSE "."]
MCTree == [p \in {"dir/file"} |-> [kind |-> "file", data |-> "x"]]
=============================================================================
