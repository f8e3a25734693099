-------------------------- MODULE MCNotificationPath --------------------------
(* TLC instance of NotificationPath. With every message routable, the       *)
(* messages are interchangeable, as are the routers.                        *)
EXTENDS NotificationPath, TLC

Symmetry == Permutations(Messages) \cup Permutations(Members)
=============================================================================
