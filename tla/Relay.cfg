SPECIFICATION MCSpec
CONSTANTS
  TCP_WND = 3
  TCP_SND_BUF = 3
  CLIENT_SOCKS_RECV_BUF_SIZE = 2
  UpBytes = 5
  DownBytes = 4
  OwnerRead = 2
  Local = {a, b, c}
  Remote = {x, y}
  MaxConnections = 2
  BufferSize = 1
  MaxPackets = 3
INVARIANTS
  MemorySafe
  NoWakeUpLost
  HandshakeCorrect
  AnswerFromAsked
PROPERTIES
  PacketsSent
  Pipes
  ClientEnds
  HandshakeEnds
CHECK_DEADLOCK FALSE
