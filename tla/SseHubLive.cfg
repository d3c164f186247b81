SPECIFICATION Spec
CONSTANTS
  Capacity = 1
  RepostAfter = 2
  Sockets = {1}
  MailboxSize = 1
  MaxVersion = 2
  MaxNotices = 1
  MaxSessions = 2
  MaxRefusals = 1
PROPERTIES
  ClientsCatchUp
  HubGoesOn
