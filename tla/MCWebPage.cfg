SPECIFICATION Spec
CONSTANTS
  Needles = {"none", "cloud", "new"}
  NoNeedle = "none"
  Commands <- ThePalette
  Rows <- TheChats
  Hit <- Hits
  RecentLimit = 2
  SearchLimit = 2
  Nothing = Nothing
  Tabs = {t1, t2}
  Pages = {"c1"}
  Public = {"share"}
  Foreign = {"evil"}
  NoUrl = NoUrl
  MaxLines = 5
  MaxVersions = 2
INVARIANTS
  PaletteHonest
  SignInReturns
  BlocksStandAlone
