----------------------------- MODULE MCVfsTree -----------------------------
(***************************************************************************)
(* A root directory with one directory in it, D, which holds two files      *)
(* whose names differ in case only, for VfsTree.                            *)
(***************************************************************************)
EXTENDS VfsTree, TLC

Entry(name, inode) == [name |-> name, inode |-> inode]

CaseEntries == [d \in Dirs |-> IF d = Root THEN <<Entry("D", 3)>>
                               ELSE <<Entry("F", 5), Entry("f", 4)>>]

MCFold == [n \in Names |-> CASE n = "D" -> "d" [] n = "F" -> "f" [] OTHER -> n]

\* The root, the directory by its name in another case, the second of its files, and
\* a file that is not there.
MCPaths == {<<>>, <<"d">>, <<"D", "f">>, <<"f">>}
=============================================================================
