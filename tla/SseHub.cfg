SPECIFICATION Spec
CONSTANTS
  Capacity = 1
  RepostAfter = 2
  Sockets = {1, 2}
  MailboxSize = 2
  MaxVersion = 1
  MaxNotices = 2
  MaxSessions = 2
  MaxRefusals = 0
INVARIANTS
  EveryNoticeInOrder
PROPERTIES
  NothingAfterTheCut
