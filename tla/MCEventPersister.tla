--------------------------- MODULE MCEventPersister ---------------------------
(* TLC instance of EventPersister. Processes are interchangeable.           *)
EXTENDS EventPersister, TLC

Symmetry == Permutations(Members)
=============================================================================
