SPECIFICATION Spec
CONSTANTS
  Fields = {"name"}
  Texts = {t}
  NumSlots = 1
  Uploads = {u1,u2}
  MaxSaves = 1
  Ages = {20}
  MinAge = 18
  MaxAge = 19
  Nil = Nil
  Empty = Empty
  Placeholder = Placeholder
SYMMETRY Symmetry
INVARIANTS
  CellsMatchUser
  RangesAreOrdered
  PhotosAreStored
  OneUploadAtATime
PROPERTIES
  LoadedSaveWrites
CHECK_DEADLOCK FALSE
CONSTRAINT AgesApart
