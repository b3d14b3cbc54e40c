SPECIFICATION Spec
CONSTANTS
  URLs = {u1, u2, u3}
  NilURL = NilURL
  EmptyURL = EmptyURL
  NoPhoto = NoPhoto
  StockPhoto = StockPhoto
  Loads = {l1, l2, l3}
  NoLoad = NoLoad
SYMMETRY Symmetry
INVARIANT PhotoBelongsToBar
INVARIANT CrashOnlyWithoutPhotos
CHECK_DEADLOCK FALSE
