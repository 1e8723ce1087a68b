SPECIFICATION Spec
CONSTANTS
  Guests = {g1}
  Chunks <- TwoChunks
  Places <- MCPlaces
  Spawn = "home"
  View <- RingView
  Keep <- RingKeep
  Entry <- MCEntry
  None = None
  Pace = 1
  FrameChunks = 1
  EncodeLimit = 1
  MaxEdits = 1
  MaxFlight = 2
PROPERTIES EntryCompletes RingFills
