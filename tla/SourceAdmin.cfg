\* One command at a time, each of which may die anywhere.
SPECIFICATION SerialSpec
CONSTANTS
  Procs = {p1}
  GameSources = {game, local}
  DropSources = {drops}
  NoticeSources = {}
  Primary = game
  Local = local
  MaxVersion = 1
  MaxEvents = 2
  None = None
INVARIANTS TypeOK JournalAgrees TakedownHolds BuildHistory
PROPERTIES NoPhantomPurge NoRowsWhileDisabled
CHECK_DEADLOCK FALSE
