--------------------------- MODULE MCEventNotifier ---------------------------
(* TLC instance of EventNotifier. Processes are interchangeable.            *)
EXTENDS EventNotifier, TLC

Symmetry == Permutations(Notifiers)
=============================================================================
