\* One command at a time; a purge of a source without rows.
SPECIFICATION SerialSpec
CONSTANTS
  Procs = {p1}
  GameSources = {game, local}
  DropSources = {drops}
  NoticeSources = {}
  Primary = game
  Local = local
  MaxVersion = 1
  MaxEvents = 2
  None = None
PROPERTY PurgeRecorded
CHECK_DEADLOCK FALSE
