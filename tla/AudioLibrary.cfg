SPECIFICATION FairSpec
CONSTANTS
  FirstUploadId = 1
  LastId = 2
  ClipLists <- OneOrBoth
  MaxUploads = 2
  MaxFaults = 2
  MaxPowerCuts = 1
INVARIANTS
  ClipsAreAsTold NoClipSeenTorn RunNotHeldUp
PROPERTIES
  RunClipsStay DeletesEnd
