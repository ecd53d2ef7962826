--------------------------- MODULE MCPathRegistry ---------------------------
(* An instance of PathRegistry for TLC: a chain of three paths and a fourth *)
(* beside it.                                                                *)
EXTENDS PathRegistry, TLC

MCPaths == {"/a", "/a/b", "/a/b/c", "/d"}
MCAbove == [p \in MCPaths |-> CASE p = "/a/b" -> <<"/a">>
                                [] p = "/a/b/c" -> <<"/a/b", "/a">>
                                [] OTHER -> <<>>]
CONSTANTS a1, a2, a3, a4
MCAdaptors == {a1, a2, a3, a4}
MCIface == [a \in MCAdaptors |-> IF a = a4 THEN "j" ELSE "i"]
Symm == Permutations(MCAdaptors \ {a4})
=============================================================================
