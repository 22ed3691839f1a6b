SPECIFICATION Spec
CONSTANTS
  Guests = {g, h}
  Writers = {g}
  None = None
  Chunk = 1
  MaxBuffered = 2
  MaxEntries = 2
  MaxAsks = 1
  MaxPrompts = 1
  MaxConnections = 2
  MaxRooms = 2
INVARIANTS NoGap DialogsMatch RefusedWhenCutOff NothingMissing
CHECK_DEADLOCK FALSE
