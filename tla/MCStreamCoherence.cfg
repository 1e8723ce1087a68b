SPECIFICATION Spec
CONSTANTS
  Guests = {g1}
  Chunks <- TwoChunks
  Places <- MCPlaces
  Spawn = "home"
  View <- ApartView
  Keep <- ApartKeep
  Entry <- MCEntry
  None = None
  Pace = 1
  FrameChunks = 1
  EncodeLimit = 1
  MaxEdits = 2
  MaxFlight = 2
INVARIANTS StreamInv RingTerrainCoherent
PROPERTIES NoRewind EntersOnGround
