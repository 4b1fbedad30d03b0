-------------------------- MODULE MCNamespaceFiles --------------------------
(* Two folders that may hold a file f each, and a file d_f whose resource has *)
(* the name of that of d/f.                                                  *)
EXTENDS NamespaceFiles, TLC

MCPaths     == {<<"d">>, <<"d", "f">>, <<"e">>, <<"e", "f">>, <<"d_f">>}
MCSanitized == [p \in MCPaths |-> IF p = <<"d_f">> THEN <<"d", "f">> ELSE p]

Symmetry == Permutations(Users) \cup Permutations(Nodes) \cup Permutations(Contents)
=============================================================================
