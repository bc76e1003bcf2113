INIT TablesInit
NEXT TablesNext
CONSTANTS
  Lines <- MCLinesShort
  Ids = {0, 1, 2}
  MaxPorts = 2
  a1 = a1
  a2 = a2
  c1 = c1
  c2 = c2
  b1 = b1
  v1 = v1
  v2 = v2
  \* A menu of two entries, the longest menus and a short one in between, so that
  \* the buffer holds a longer menu when a shorter one follows.
  Addrs = {a1, a2}
  Watched = {"SLS_SET_CHIP_POWER", "SLS_RUN_STATUS", "SLS_DET_TYPE", "SLS_SET_SPEED",
             "SLS_SET_GAIN"}
  Channels = {0, 1, 3}
  Offsets = {0, 4}
  Junk = {9}
  MaxLines = 3
  ParameterValues = {v1, v2}
  Cells = {c1, c2}
  Buffers = {b1}
  Numbers = {1, 2}
  \* The last module whose bit is its own, the one whose bit is the sign of an
  \* int, and one that is given the bit of module 30.
  Modules = {30, 31, 62}
  MaxErrors = 2
  \* A server as new as the client, one function older and three older.
  Versions = {0, 1, 3}
INVARIANTS
  SpacedMemoryIsOwn
  ModulesAsListed
  NamesAreKept
  MenusServe
  ErrorsAreTold
  BadChannelsAreListed
  SettingsHold
  GotIsWhatWasSet
PROPERTIES
  OnlyWhatIsMeant
\* The ports of an IOC and the lines of a file are bounded, and a name is
\* exchanged once.
CHECK_DEADLOCK FALSE
