\* One command at a time; a drop source rides along with a sync.
SPECIFICATION SerialSpec
CONSTANTS
  Procs = {p1}
  GameSources = {game, local}
  DropSources = {drops}
  NoticeSources = {notices}
  Primary = game
  Local = local
  MaxVersion = 1
  MaxEvents = 2
  None = None
INVARIANT CascadeComplete
CHECK_DEADLOCK FALSE
