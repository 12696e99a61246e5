\* Two servers, one with a feed; at most two irregular files a run.
SPECIFICATION Spec
CONSTANTS
  ServerOrder  <- MCServerOrder
  Feeds        <- MCFeeds
  Ordinary     <- MCOrdinary
  Irregular    <- MCIrregular
  MaxIrregular = 2
INVARIANTS Resolved AllOrReported CombatWhole LevelsConsistent ValuesKept Searchable CommitPromotes
