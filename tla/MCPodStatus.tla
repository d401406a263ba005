----------------------------- MODULE MCPodStatus -----------------------------
(* Small instances of PodStatus for TLC.                                   *)
EXTENDS PodStatus, TLC

SmallExitCodes == {0, 3}

Symmetry == Permutations(Calls) \cup Permutations(Readers)

=============================================================================
