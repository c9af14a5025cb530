SPECIFICATION FairSpec
CONSTANTS
  Handlers = {h1, h2}
  NoHandler = NoHandler
  MaxMessages = 3
  MaxConnects = 4
INVARIANTS TypeOK NothingLostInPeace
PROPERTIES SoloInOrder TopicDrains
CHECK_DEADLOCK FALSE
