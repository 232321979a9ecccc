----------------------------- MODULE SteamStats -----------------------------
(***************************************************************************)
(* The stats latch of the Steamworks extension:                            *)
(* src/ENIGMAsystem/SHELL/Universal_System/Extensions/Steamworks/          *)
(* game_client/c_stats_and_achievements.cpp and steam_stats_ready in       *)
(* general.cpp.                                                            *)
(*                                                                         *)
(* The constructor asks Steam for the user's stats (RequestCurrentStats).  *)
(* Steam answers with callbacks that it queues and that the game's         *)
(* SteamAPI_RunCallbacks pump delivers in order to the three handlers.     *)
(* `statsValid` is the field stats_valid_.  `queue` holds the callbacks    *)
(* Steam has posted and the game has not yet delivered.  `requestPending` *)
(* and `steamLoaded` are Steam's side: whether the constructor's request  *)
(* is unanswered, and whether Steam holds the user's stats for this game. *)
(* `posted` counts callbacks, to bound behaviours.  `initialised` and     *)
(* `loggedOn` are what c_main::is_initialised and                         *)
(* c_game_client::is_user_logged_on report: steam_init creates the stats  *)
(* object (running its constructor), and the user may log on and off.     *)
(*                                                                         *)
(* Steam's side is the environment: it answers the request with any       *)
(* result, may post callbacks for other games, and accepts StoreStats only *)
(* once it holds the stats (otherwise StoreStats returns false and posts   *)
(* nothing).  RequestCurrentStats itself returns false and posts nothing  *)
(* when no user is logged on (the handler's log message says so); the     *)
(* constructor ignores that result.                                       *)
(***************************************************************************)
EXTENDS Naturals, Sequences

CONSTANTS
  OwnGame,       \* c_game_id_: this game's id (a model value)
  OtherGames,    \* ids of other games that callbacks may carry
  MaxCallbacks,  \* bound on the callbacks Steam posts in a behaviour
  RequestResults \* the EResults Steam may answer RequestCurrentStats with

Results == {"OK", "InvalidParam", "Fail"}   \* EResult values told apart
Games == {OwnGame} \cup OtherGames
Kinds == {"received", "stored", "achievement"}
Callback == [kind : Kinds, game : Games, result : Results]

ASSUME RequestResults \subseteq Results

VARIABLES statsValid, queue, requestPending, steamLoaded, posted,
          initialised, loggedOn,
          lastCall   \* the last stats call: what steam_stats_ready answered
                     \* before it and whether Steam accepted it
vars == <<statsValid, queue, requestPending, steamLoaded, posted,
          initialised, loggedOn, lastCall>>

(* The methods that pass straight to ISteamUserStats, which Steam accepts *)
(* only once it holds the user's stats (RequestCurrentStats answered OK). *)
StatsCalls == {"set_achievement", "get_achievement", "clear_achievement",
               "set_stat_int", "get_stat_int", "set_stat_float",
               "get_stat_float", "set_stat_average_rate", "reset_all_stats",
               "reset_all_stats_achievements"}

(* Before steam_init: no stats object, nothing requested. *)
Init ==
  /\ statsValid = FALSE
  /\ queue = <<>>
  /\ requestPending = FALSE
  /\ steamLoaded = FALSE
  /\ posted = 0
  /\ initialised = FALSE
  /\ loggedOn \in BOOLEAN
  /\ lastCall = <<>>

(* steam_init creates the stats object: stats_valid_(false), then         *)
(* request_current_stats(), which Steam accepts only for a logged-on user. *)
Construct ==
  /\ ~initialised
  /\ initialised' = TRUE
  /\ statsValid' = FALSE
  /\ requestPending' = loggedOn
  /\ UNCHANGED <<queue, steamLoaded, posted, loggedOn, lastCall>>

-----------------------------------------------------------------------------
(* The handlers, as functions of stats_valid_ and the callback.           *)

(* Mutant: the game-id check dropped.                                     *)
OnUserStatsReceivedAnyGame(valid, cb) ==
  IF valid THEN valid
  ELSE cb.result = "OK"

(* on_user_stats_received: ignore other games, keep a latched value, set  *)
(* the latch on k_EResultOK (a failure is only logged).                   *)
OnUserStatsReceived(valid, cb) ==
  IF cb.game # OwnGame \/ valid THEN valid
  ELSE cb.result = "OK"

(* on_user_stats_stored: ignore other games; on k_EResultInvalidParam     *)
(* build an OK UserStatsReceived_t for this game and call                 *)
(* on_user_stats_received with it; OK and other failures are only logged  *)
(* (the store_stats retry is commented out).                              *)
OnUserStatsStored(valid, cb) ==
  IF cb.game = OwnGame /\ cb.result = "InvalidParam"
  THEN OnUserStatsReceived(valid, [kind |-> "received", game |-> OwnGame,
                                   result |-> "OK"])
  ELSE valid

(* on_achievement_stored only logs. *)
OnAchievementStored(valid, cb) == valid

-----------------------------------------------------------------------------
(* Steam's side. *)

(* Steam queues a callback.  The callbacks of stores, other games and    *)
(* repeated requests are bounded by MaxCallbacks; the answer to a pending *)
(* request is not.                                                        *)
Post(cb) ==
  /\ queue' = Append(queue, cb)
  /\ posted' = posted + 1

(* Steam answers a request_current_stats with UserStatsReceived_t; after *)
(* an OK answer it holds the stats.                                       *)
SteamAnswerRequest(result) ==
  /\ requestPending
  /\ Post([kind |-> "received", game |-> OwnGame, result |-> result])
  /\ requestPending' = FALSE
  /\ steamLoaded' = (steamLoaded \/ result = "OK")
  /\ UNCHANGED <<statsValid, initialised, loggedOn, lastCall>>

(* A callback about another game (the callbacks are broadcast; before    *)
(* steam_init no handler is registered to receive one).                  *)
SteamOtherGame(cb) ==
  /\ initialised /\ cb.game \in OtherGames /\ posted < MaxCallbacks
  /\ Post(cb)
  /\ UNCHANGED <<statsValid, requestPending, steamLoaded, initialised, loggedOn,
                 lastCall>>

(* The user logs on or off in the Steam client. *)
SteamLogOn(on) ==
  /\ loggedOn' = on
  /\ UNCHANGED <<statsValid, queue, requestPending, steamLoaded, posted,
                 initialised, lastCall>>

-----------------------------------------------------------------------------
(* The game's calls on the stats object steam_init made.                 *)

(* steam_stats_ready: false unless Steam is initialised and the user is  *)
(* logged on, then stats_valid().                                         *)
SteamStatsReady == initialised /\ loggedOn /\ statsValid

(* What the game saw: steam_stats_ready just before the call, and         *)
(* whether Steam accepted the call.                                       *)
Called(ok) == lastCall' = <<[ready |-> SteamStatsReady, ok |-> ok]>>

(* set_achievement, get_stat_int, reset_all_stats and the other          *)
(* pass-throughs: the answer of ISteamUserStats, true once Steam holds    *)
(* the stats (the names are ones Steam knows).                            *)
StatsCall(op) ==
  /\ initialised
  /\ Called(steamLoaded)
  /\ UNCHANGED <<statsValid, queue, requestPending, steamLoaded, posted,
                 initialised, loggedOn>>

(* store_stats: StoreStats(), refused until Steam holds the stats; once  *)
(* accepted Steam reports the store (UserStatsStored_t) or achievement     *)
(* progress (UserAchievementStored_t) with some result.                    *)
StoreStats(kind, result) ==
  /\ initialised /\ posted < MaxCallbacks
  /\ Called(steamLoaded)
  /\ IF steamLoaded THEN Post([kind |-> kind, game |-> OwnGame, result |-> result])
     ELSE UNCHANGED <<queue, posted>>
  /\ UNCHANGED <<statsValid, requestPending, steamLoaded, initialised, loggedOn>>

(* request_current_stats: RequestCurrentStats(), refused when no user is *)
(* logged on; an accepted request is answered later.  (Nothing in src    *)
(* calls it again after the constructor; a game may.)                     *)
RequestCurrentStats ==
  /\ initialised /\ posted < MaxCallbacks
  /\ Called(loggedOn)
  /\ requestPending' = (requestPending \/ loggedOn)
  /\ UNCHANGED <<statsValid, queue, steamLoaded, posted, initialised, loggedOn>>

(* SteamAPI_RunCallbacks delivers the oldest callback to its handler. *)
Deliver ==
  /\ queue # <<>>
  /\ LET cb == Head(queue)
     IN  statsValid' = CASE cb.kind = "received" -> OnUserStatsReceived(statsValid, cb)
                         [] cb.kind = "stored"   -> OnUserStatsStored(statsValid, cb)
                         [] OTHER                -> OnAchievementStored(statsValid, cb)
  /\ queue' = Tail(queue)
  /\ UNCHANGED <<requestPending, steamLoaded, posted, initialised, loggedOn, lastCall>>

Next ==
  \/ Construct
  \/ \E on \in BOOLEAN : SteamLogOn(on)
  \/ \E r \in RequestResults : SteamAnswerRequest(r)
  \/ \E cb \in Callback : SteamOtherGame(cb)
  \/ \E op \in StatsCalls : StatsCall(op)
  \/ \E k \in {"stored", "achievement"}, r \in Results : StoreStats(k, r)
  \/ RequestCurrentStats
  \/ Deliver

(* The game pumps callbacks every step of its loop, so a queued callback *)
(* is delivered.  Steam answers a request it accepted (with any result);  *)
(* it owes the game nothing else.                                         *)
Fairness ==
  /\ WF_vars(Deliver)
  /\ WF_vars(\E r \in RequestResults : SteamAnswerRequest(r))

Spec == Init /\ [][Next]_vars /\ Fairness

-----------------------------------------------------------------------------
(* stats_valid_ seen through StatsLatch: Steam's loaded stats and the    *)
(* flag.                                                                  *)
Latch == INSTANCE StatsLatch WITH loaded <- steamLoaded, ready <- statsValid

(* The stats object implements StatsLatch: stats_valid_ is set only once  *)
(* Steam really holds this game's stats (a UserStatsReceived_t of another *)
(* game must not set it), is never cleared (not by a later failure, a     *)
(* repeated request, nor by steam_init's constructor), and is eventually  *)
(* set once Steam holds the stats, whatever other callbacks come first.   *)
StatsLatchRefined == Latch!Spec

(* A game that called steam_init and whose user is, from some point on,   *)
(* logged on for good eventually sees steam_stats_ready answer true, when *)
(* Steam answers every stats request with OK: the constructor's           *)
(* request_current_stats is the only request, so it must not be lost.     *)
ReadyOnceLoggedOn == <>[](initialised /\ loggedOn) => <>SteamStatsReady
=============================================================================
