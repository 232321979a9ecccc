\* This game, one other game, up to three callbacks posted by Steam, which
\* may answer the stats request with any result.
CONSTANTS
  own = own
  other = other
  OwnGame <- own
  OtherGames <- MCOtherGames
  MaxCallbacks = 3
  AppId = 480
  AccountId = 7
  SteamId = 9
  PersonaName = "player"
  GameLanguage = "english"
  GameLanguages = "english,german"
  Subscribed = TRUE
  RequestResults = {"OK", "InvalidParam", "Fail"}
SPECIFICATION GeneralSpec
PROPERTIES
  StatsLatchRefined
\* Steam may post nothing more and the queue may be empty: the game keeps
\* running with nothing to deliver.
CHECK_DEADLOCK FALSE
