CONSTANTS
  HEAD_LEN = 2
  TAG_LEN = 1
  MAX_HANDSHAKE_MSG = 1
  HsLen = 1
  BodyLens = {1, 2}
  MaxFrames = 2
  MaxMangles = 1
  MangleKinds = {"corrupt", "drop", "repeat", "cut"}
SPECIFICATION LiveSpec
INVARIANTS TypeOK HonestNeverRefused
PROPERTIES ImplementsFramePipe NothingLost AdoptionEnds
CHECK_DEADLOCK FALSE
