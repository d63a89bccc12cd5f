--------------------------- MODULE MCNotification ---------------------------
(* Two Notifications, three receivers and two threads, interchangeable.    *)
EXTENDS Notification, TLC

Symmetry == Permutations(Notifications) \cup Permutations(Receivers) \cup Permutations(Threads)
=============================================================================
