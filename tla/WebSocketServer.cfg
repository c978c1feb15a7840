\* A client that comes, talks and goes, and a core that answers and broadcasts.
SPECIFICATION Spec
CONSTANTS
  Tokens = {t1}
  SERVER = server
  WAKER = waker
  Everyone = everyone
  MaxFrames = 3
  MaxInbound = 3
  MaxOutbound = 2
INVARIANTS
  SessionProtocol
PROPERTIES
  FramesAreRead
  MessagesAreWritten
  EndIsReported
