CONSTANTS
  p1 = p1
  p2 = p2
  s1 = s1
  s2 = s2
  v1 = v1
  v2 = v2
  NoRequest = NoRequest
  NoReply = NoReply
  NoCommand = NoCommand
  NoBuffer = NoBuffer
  Procs <- MCProcs
  Slots <- MCSlots
  Jobs <- MCJobs
  Values <- MCValues
  PageImages <- MCOne
  Colors <- MCOne
  Modes <- MCOne
  Rests <- MCOne
  NumLayers = 2
  NumPages = 1
  Exclusive = TRUE
  Prompt = TRUE
SYMMETRY Symmetry
SPECIFICATION Spec
INVARIANT TypeOK
INVARIANT FreshBuffer
PROPERTY OneKeyChanged
PROPERTY ResponseAnswersRequest
PROPERTY AtomicSpec
