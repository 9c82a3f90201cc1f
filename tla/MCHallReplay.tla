---------------------------- MODULE MCHallReplay ----------------------------
(* HallReplay with the rules scaled to ticks: their order is the code's      *)
(* (slow mode < idle = presence TTL < lease < cooldown).                     *)
EXTENDS HallReplay

CONSTANT MaxTime     \* bound: events are issued at 1 .. MaxTime

MCFourPeers == {1, 2, 3, 4}
MCPeers == {1, 2, 3}
MCTwoPeers == {1, 2}
MCEventTimes == 1 .. MaxTime
=============================================================================
