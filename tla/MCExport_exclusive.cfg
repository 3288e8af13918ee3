CONSTANTS
  p1 = p1
  p2 = p2
  s1 = s1
  s2 = s2
  factory = factory
  other = other
  m1 = m1
  m2 = m2
  mouse = mouse
  once = once
  thrice = thrice
  black = black
  red = red
  effect = effect
  selfDefine = selfDefine
  dim = dim
  bright = bright
  NoRequest = NoRequest
  NoReply = NoReply
  NoCommand = NoCommand
  NoBuffer = NoBuffer
  Slots <- MCSlots
  Values <- MCExportValues
  Plain <- MCExportPlain
  PageImages <- MCExportPageImages
  Colors <- MCColors
  Black = black
  Modes <- MCOneMode
  SelfDefine = selfDefine
  MacroNames <- MCMacroNames
  Unwritable <- MCUnwritable
  Plays <- MCPlays
  Tables <- MCExportTables
  PageCount <- MCExportPageCount
  Factory <- MCFactory
  Fresh <- MCKeyboards
  NumLayers = 2
  NumPages = 2
  DryRuns = {FALSE}
  Rests <- MCOneRest
  Procs <- MCTwoProcs
  Files <- MCOneFile
  Exclusive = TRUE
  Prompt = TRUE
  unbound = unbound
  ctrl = ctrl
  NoAction = NoAction
  NoFile = NoFile
  Unbound = unbound
  Keyless <- MCKeyless
  Once = once
  Importers = {p1}
  ExportJobs <- MCExports
SPECIFICATION ExportSpec
PROPERTY PartIsCurrent
PROPERTY QuietExportRestores
