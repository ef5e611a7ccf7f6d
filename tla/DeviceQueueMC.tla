---------------------------- MODULE DeviceQueueMC ----------------------------
(* A device with urgent and background callers, and another with one caller. *)
EXTENDS DeviceQueue, TLC
CONSTANTS u1, u2, u3, b1, b2, v1, d1, d2

CallDevice == u1 :> d1 @@ u2 :> d1 @@ u3 :> d1 @@ b1 :> d1 @@ b2 :> d1 @@ v1 :> d2
=============================================================================
