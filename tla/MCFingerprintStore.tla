------------------------ MODULE MCFingerprintStore ------------------------
(* Small instances of FingerprintStore for TLC.                            *)
EXTENDS StoreRefinement, TLC

\* Worker threads are interchangeable (safety runs only).
WorkerSymmetry == Permutations(Workers)
=============================================================================
