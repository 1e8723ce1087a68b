CONSTANTS
  p1 = p1
  p2 = p2
  r1 = r1
  r2 = r2
  unknown = unknown
  stone = stone
  ore = ore
  gem = gem
  i1 = i1
  i2 = i2
  i3 = i3
  Chunks <- TwoChunks
  Readers <- TwoReaders
  Names <- MCNames
  Base <- MCBase
  Unknown = unknown
  Native = stone
  Ids <- MCIds
  NoId = NoId
  Absent = Absent
  NoResult = NoResult
SPECIFICATION Spec
SYMMETRY Symmetry
INVARIANTS SavedInv CurrentResultIsSaved CleanIsSaved
PROPERTIES MeaningKept EditsOutliveEviction
