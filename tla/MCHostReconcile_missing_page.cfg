SPECIFICATION FairSpec
CONSTANTS
  d = d
  s = s
  c = c
  base = base
  site = site
  DefaultTranslation = d
  Translations <- MCTranslations
  Name <- MCName
  ByName <- MCByName
  Worlds <- JustAnnounced
  MaxEdits = 1
  MaxTroubles = 0
PROPERTY MissingShown
CHECK_DEADLOCK FALSE
