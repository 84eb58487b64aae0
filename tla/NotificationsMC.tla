--------------------------- MODULE NotificationsMC ---------------------------
(* NotificationWaiter with two messages, each in a store of its own. *)
EXTENDS NotificationWaiter, TLC

CONSTANTS m1, m2, a1, a2

Apart == (m1 :> "main") @@ (m2 :> "dispatch")
=============================================================================
