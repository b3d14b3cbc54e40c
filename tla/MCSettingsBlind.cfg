SPECIFICATION Spec
CONSTANTS
  Fields = {"name", "job"}
  Texts = {t}
  NumSlots = 0
  Uploads = {}
  MaxSaves = 1
  Ages = {20}
  MinAge = 18
  MaxAge = 19
  Nil = Nil
  Empty = Empty
  Placeholder = Placeholder
PROPERTIES
  SavesCurrentData
CHECK_DEADLOCK FALSE
