CONSTANTS
  host = host
  NoReq = NoReq
  NoRep = NoRep
  ByteSize = 8
  OpByte <- MCOpByte
  ReportId = 3
  ReportLen = 20
  NumSlots = 3
  NumLayers = 2
  NumPages = 2
  PageLen = 13
  ProfileLen = 3
  ModeAt = 1
  MarkerAt = 2
  Marker = 4
  First <- MCFirst
  Writes <- MCWrites
  Patches <- MCPatches
  ReadLens <- MCReadLens
  Host = host
  NoRequest = NoReq
  NoReply = NoRep
SPECIFICATION Spec
INVARIANT TypeOK
PROPERTY ReportsCarryRequests
PROPERTY TakenIsReply
