---------------------------- MODULE MCSteamStats ----------------------------
(* Model-checking instance of the Steam client: this game and one other,  *)
(* the stats object of SteamStats under the general.cpp functions.        *)
EXTENDS SteamGeneral

CONSTANTS own, other

MCOtherGames == {other}
=============================================================================
