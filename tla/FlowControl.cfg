CONSTANTS
  WINDOW = 8
  MAX_PAYLOAD = 3
  GRANT_THRESHOLD = 4
  INBOX_FRAMES = 4
  MinFrame = 1
  HEAD_LEN = 1
SPECIFICATION LiveSpec
INVARIANTS DownConserved UpConserved NoStall
PROPERTIES CreditReturns
CHECK_DEADLOCK FALSE
