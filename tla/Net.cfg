SPECIFICATION FairSpec
CONSTANTS
  c = c
  d = d
  Bufs <- MCBufs
  None = None
  Peers <- MCPeers
  Client = c
  Pieces <- MCPieces
INVARIANTS
  RoomForAFrame
  BuffersAccounted
  FileAsSent
  NeverWaitsInVain
PROPERTIES
  ReceptionResumes
