CONSTANTS
  p1 = p1
  p2 = p2
  s1 = s1
  s2 = s2
  factory = factory
  other = other
  m1 = m1
  m2 = m2
  mouse = mouse
  once = once
  thrice = thrice
  black = black
  red = red
  effect = effect
  selfDefine = selfDefine
  dim = dim
  bright = bright
  NoRequest = NoRequest
  NoReply = NoReply
  NoCommand = NoCommand
  NoBuffer = NoBuffer
  Slots <- MCSlots
  Values <- MCValues
  Plain <- MCPlain
  PageImages <- MCPageImages
  Colors <- MCColors
  Black = black
  Modes <- MCModes
  SelfDefine = selfDefine
  MacroNames <- MCMacroNames
  Unwritable <- MCUnwritable
  Plays <- MCPlays
  Tables <- MCAllTables
  PageCount <- MCPageCount
  Factory <- MCFactory
  Fresh <- MCAllForeign
  NumLayers = 2
  NumPages = 2
  DryRuns = {FALSE, TRUE}
  Rests <- MCOneRest
  Procs <- MCOneProc
  Files <- MCAllFiles
  Exclusive = TRUE
  Prompt = TRUE
SPECIFICATION RetrySpec
INVARIANT ImportEstablishes
PROPERTY OnlyImportsWrite
PROPERTY MacrosBeforeLayers
PROPERTY RetryConverges
