----------------------- MODULE MCNotificationDelivery -----------------------
(* Small instances of NotificationDelivery for TLC. *)
EXTENDS NotificationDelivery, TLC
Symmetry == Permutations(Events)
=============================================================================
