CONSTANTS
  p1 = p1
  p2 = p2
  s1 = s1
  s2 = s2
  factory = factory
  other = other
  m1 = m1
  m2 = m2
  mouse = mouse
  once = once
  thrice = thrice
  black = black
  red = red
  effect = effect
  selfDefine = selfDefine
  dim = dim
  bright = bright
  NoRequest = NoRequest
  NoReply = NoReply
  NoCommand = NoCommand
  NoBuffer = NoBuffer
  Slots <- MCSlots
  Values <- MCValues
  Plain <- MCPlain
  PageImages <- MCPageImages
  Colors <- MCColors
  Black = black
  Modes <- MCOneMode
  SelfDefine = selfDefine
  MacroNames <- MCMacroNames
  Unwritable <- MCUnwritable
  Plays <- MCPlays
  Tables <- MCTables
  PageCount <- MCPageCount
  Factory <- MCFactory
  Fresh <- MCForeign
  NumLayers = 2
  NumPages = 2
  DryRuns = {FALSE}
  Rests <- MCOneRest
  Procs <- MCTwoProcs
  Files <- MCOneFile
  Exclusive = FALSE
  Prompt = FALSE
SPECIFICATION FairSpec
INVARIANT TypeOK
PROPERTY ImportsEnd
