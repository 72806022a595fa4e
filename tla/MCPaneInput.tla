---------------------------- MODULE MCPaneInput ----------------------------
(* Module PaneInput for TLC: the calls are interchangeable, and one batch  *)
(* at a time is past its first operation.                                  *)
EXTENDS PaneInput, TLC

CallSymmetry == Permutations(Calls)

OneLongBatch == \A c, d \in Calls : call[c].ops > 0 /\ call[d].ops > 0 => c = d
=============================================================================
