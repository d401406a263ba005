--------------------------- MODULE MCProcessClient ---------------------------
(* Small instances of ProcessClient for TLC.                               *)
EXTENDS ProcessClient, TLC

\* Success, and a failure that differs from the 1 GetPod falls back to.
SmallExitCodes == {0, 3}

\* Safety runs only: the identities of pods and calls do not matter.
Symmetry == Permutations(Keys) \cup Permutations(Calls) \cup Permutations(Deletes)

=============================================================================
