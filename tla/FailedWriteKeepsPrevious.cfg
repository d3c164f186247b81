SPECIFICATION Spec
CONSTANTS
  Docs = {"p", "q"}
  FirstUploadId = 2
  LastId = 3
  Images <- OneImage
  MaxLostWrites = 1
  MaxSkips = 0
  None = None
PROPERTIES
  FailedWriteKeepsPrevious
