SPECIFICATION RunPageSpec
CONSTANTS
  Programs = {p1, p2}
  Wide = {}
  NoProgram = noProgram
  MaxRequests = 1
  MaxFrames = 1
INVARIANTS
  StartIsOffered
