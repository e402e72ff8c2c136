------------------------ MODULE MCNotificationOutbox ------------------------
(* Small instances of NotificationOutbox for TLC. *)
EXTENDS NotificationOutbox, TLC

SweepSymmetry == Permutations(Sweeps)
RowSymmetry   == Permutations(Rows) \cup Permutations(Sweeps)
===============================================================================
