-------------------------- MODULE MCDirEnumeration --------------------------
(***************************************************************************)
(* Two enumerations of one directory, or of none, with two expressions.     *)
(***************************************************************************)
EXTENDS DirEnumeration

MCListings == {<<>>, <<"a.txt", "b.txt", "c.c", "a.c">>}
MCMatches == [e \in Exprs |-> IF e = "*.c" THEN {"c.c", "a.c"} ELSE {"a.txt", "a.c"}]
=============================================================================
