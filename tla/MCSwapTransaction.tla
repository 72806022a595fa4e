-------------------------- MODULE MCSwapTransaction --------------------------
(***************************************************************************)
(* mcp-swap on Claude's file, which has two scopes and so two layers, and  *)
(* the file of one other client.                                           *)
(***************************************************************************)
EXTENDS SwapTransaction, TLC

MCKeyOrder == <<"claude:user", "claude:project", "cursor:user">>

MCConfigOf == [k \in {"claude:user", "claude:project", "cursor:user"} |->
                 IF k = "cursor:user" THEN "cursor" ELSE "claude"]

Symmetry == Permutations(Procs) \cup Permutations(Specs)

=============================================================================
