CONSTANTS
  s1 = s1
  s2 = s2
  Queries <- MCQueries
  Mutations <- MCMutations
  Places <- MCPlaces
  Scenarios <- MCScenarios
  Stops <- MCStops
  KnownGaps <- MCKnownGaps
  Slots = {s1, s2}
  MaxVersion = 2
  MaxFailures = 2
  NoData = NoData
SPECIFICATION Spec
INVARIANT TypeOK OwnWritesShown
PROPERTY ViewNeverGoesBack SettledIsShown ImplementsFreshReads
PROPERTY PolledViewsCatchUp OwnWritesAppear
CHECK_DEADLOCK FALSE
