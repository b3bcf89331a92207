SPECIFICATION FairSpec
CONSTANTS
  d = d
  s = s
  c = c
  base = base
  site = site
  DefaultTranslation = d
  Translations <- MCTranslations
  Name <- MCName
  ByName <- MCByName
  Worlds <- AllWorlds
  MaxEdits = 1
  MaxTroubles = 1
INVARIANT TypeOK
INVARIANT SourcesServed
INVARIANT ReadyMirrored
INVARIANT Precedence
PROPERTY MirrorForward
PROPERTY SpecMirrored
PROPERTY CopiesFollow
PROPERTY ConsentFollows
PROPERTY ReadySettles
PROPERTY ProblemsShown
CHECK_DEADLOCK FALSE
