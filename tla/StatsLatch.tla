----------------------------- MODULE StatsLatch -----------------------------
(***************************************************************************)
(* What the stats object of c_stats_and_achievements.cpp promises the      *)
(* game, without callbacks, games or results: Steam loads the user's       *)
(* stats at most once, and the `ready` flag (stats_valid_) is a latch that *)
(* is set only after the stats are loaded, is never cleared, and is set    *)
(* eventually once they are.                                               *)
(***************************************************************************)
VARIABLES loaded, ready

Init == ~loaded /\ ~ready

Load == ~loaded /\ loaded' = TRUE /\ UNCHANGED ready

Latch == loaded /\ ~ready /\ ready' = TRUE /\ UNCHANGED loaded

Next == Load \/ Latch

Spec == Init /\ [][Next]_<<loaded, ready>> /\ WF_<<loaded, ready>>(Latch)
=============================================================================
