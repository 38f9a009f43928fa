SPECIFICATION Spec
CONSTANTS
  c1 = c1
  c2 = c2
  c3 = c3
  ctyHome = ctyHome
  ctyDx = ctyDx
  cty0 = cty0
  p1 = p1
  p2 = p2
  x1 = x1
  x2 = x2
  b1 = b1
  b2 = b2
  None = None
  CWMODE = CW
  Calls = {c1, c2, c3}
  Bands = {b1, b2}
  Modes = {CW, SSB}
  Countries = {ctyHome, ctyDx, cty0}
  NoCountry = cty0
  Country <- MCCountry
  HomeCountries = {ctyHome}
  WpxPrefixes = {p1, p2}
  WpxPrefix <- MCPrefix
  Exchanges = {x1, x2}
  Zones = {x1, x2}
  Sections = {x1, x2}
  Setups <- MCSetups
  MaxTime = 3
  MaxBackups = 1
INVARIANTS BooksAgree TotalIsSumOfLog WorkedMatchesLog RescoringChangesNothing ScoreByTheRules
PROPERTY NothingLost
SYMMETRY Symmetry
