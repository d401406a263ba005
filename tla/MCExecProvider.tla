---------------------------- MODULE MCExecProvider ----------------------------
(* Small instances of ExecProvider for TLC.                                *)
EXTENDS ExecProvider, TLC

\* The provider does not look at exit statuses: one is enough.
SmallExitCodes == {0}

Symmetry == Permutations(Calls) \cup Permutations(Deletes) \cup Permutations(UIDs)

=============================================================================
