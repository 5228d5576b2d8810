--------------------------- MODULE MCSyncScheduler ---------------------------
(* Two connections with their own schedules; c2 is jittered by one unit.      *)
EXTENDS SyncScheduler, TLC

CONSTANTS c1, c2

MCJitter == c1 :> 0 @@ c2 :> 1
MCFires  == c1 :> {1, 2} @@ c2 :> {1}
=============================================================================
