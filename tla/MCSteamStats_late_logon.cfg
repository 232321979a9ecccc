\* Expected to fail: ReadyOnceLoggedOn, steam_init before the user logs on.
\* Steam answers every stats request it accepts with OK. MaxCallbacks 0: no
\* stores, no callbacks of other games and no repeated request_current_stats
\* (nothing in src repeats it).
CONSTANTS
  own = own
  other = other
  OwnGame <- own
  OtherGames <- MCOtherGames
  MaxCallbacks = 0
  AppId = 480
  AccountId = 7
  SteamId = 9
  PersonaName = "player"
  GameLanguage = "english"
  GameLanguages = "english,german"
  Subscribed = TRUE
  RequestResults = {"OK"}
SPECIFICATION GeneralSpec
PROPERTIES
  ReadyOnceLoggedOn
CHECK_DEADLOCK FALSE
