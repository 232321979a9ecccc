---------------------------- MODULE SteamGeneral ----------------------------
(***************************************************************************)
(* The enigma_user functions of Steamworks/general.cpp, over the stats     *)
(* object of SteamStats and the client state it tracks (`initialised`,     *)
(* `loggedOn`).  Every getter refuses when Steam is not initialised and,   *)
(* except steam_is_user_logged_on, when no user is logged on, answering   *)
(* -1 converted to its return type; otherwise it answers what Steam       *)
(* reports.  Steam's answers are constants.  steam_set_warning_message_  *)
(* hook is the only call that changes state.                              *)
(***************************************************************************)
EXTENDS SteamStats, Integers

CONSTANTS
  AppId,          \* SteamUtils()->GetAppID()
  AccountId,      \* GetAccountID() of the local user's CSteamID
  SteamId,        \* ConvertToUint64() of the local user's CSteamID
  PersonaName,    \* get_steam_persona_name()
  GameLanguage,   \* get_current_game_language()
  GameLanguages,  \* get_available_game_languages()
  Subscribed      \* is_subscribed()

VARIABLE hookSet   \* whether c_main::set_warning_message_hook has run

allVars == <<vars, hookSet>>

(* -1 returned from a function of an unsigned type of `bits` bits. *)
Unsigned(x, bits) == x % (2 ^ bits)

(* The two early returns every getter but steam_is_user_logged_on shares. *)
Refused == ~initialised \/ ~loggedOn

SteamInitialised == initialised

SteamGetAppId == IF Refused THEN Unsigned(-1, 32) ELSE AppId

SteamGetUserAccountId == IF Refused THEN Unsigned(-1, 32) ELSE AccountId

SteamGetUserSteamId == IF Refused THEN Unsigned(-1, 64) ELSE SteamId

(* std::to_string(-1) for the string getters. *)
SteamGetPersonaName == IF Refused THEN "-1" ELSE PersonaName

SteamGetUserPersonaName(name) == IF Refused THEN "-1" ELSE name

SteamIsUserLoggedOn == initialised /\ loggedOn

SteamCurrentGameLanguage == IF Refused THEN "-1" ELSE GameLanguage

SteamAvailableLanguages == IF Refused THEN "-1" ELSE GameLanguages

SteamIsSubscribed == ~Refused /\ Subscribed

(* steam_utils::get_app_id: refuses only when steam_client::is_valid()   *)
(* is false, which the model identifies with `initialised`.              *)
GetAppIdUtils == IF ~initialised THEN Unsigned(-1, 32) ELSE AppId

(* steam_set_warning_message_hook: returns early before steam_init. *)
SteamSetWarningMessageHook ==
  /\ initialised
  /\ hookSet' = TRUE
  /\ UNCHANGED vars

GeneralInit == Init /\ hookSet = FALSE

GeneralNext ==
  \/ Next /\ UNCHANGED hookSet
  \/ SteamSetWarningMessageHook

GeneralSpec == GeneralInit /\ [][GeneralNext]_allVars /\ Fairness
=============================================================================
