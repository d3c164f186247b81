SPECIFICATION PagesSpec
CONSTANTS
  Pins = {4, 5, 6}
  MaxBanks = 2
  DefaultPin = 4
  DefaultLed = 5
  Seed = 1
  Networks = {2}
  MaxCalls = 3
  Programs = {p1, p2}
  Wide = {}
  NoProgram = noProgram
  MaxRequests = 1
  MaxFrames = 1
  MaxChanges = 2
  MaxUsed = 1
  MCRow1 = r1
  MCRow2 = r2
  Rows = {r1, r2, r3}
  Readonly = {r3}
  NoRow = noRow
  Files <- MCFiles
  NoFile = noFile
  MaxReads = 2
  MaxSent = 2
  Clips = {c1, c2}
  NoClip = noClip
  MaxChoices = 3
  BankPins = {1}
  Ports = {1, 2}
  MostBanks = 2
  MaxSaves = 1
  Ssids = {n1, n2}
  NoSsid = noSsid
  Secrets = {empty, secret}
  NoSecret = empty
  Tabs = {t1, t2}
  MaxGiven = 2
  Repos = {g1, g2}
  OwnRepo = g1
  NoRepo = noRepo
  Paths = {f1, f2}
  NoId = noId
  TypedId = typedId
  MaxOpenings = 2
  MaxLetters = 2
  Characters = {" ", "nbsp", "a"}
  LongestName = 3
  LongestRun = 2
SYMMETRY Alike
INVARIANTS
  SettingsAreAsTold
  PagesAgree
  FormsAreAsShown
  BothAgree
PROPERTIES
  RequestsAreMeant
