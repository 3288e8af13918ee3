CONSTANTS
  KeyCodes <- MCKeyCodes
  Modifiers <- MCModifiers
  Characters <- MCCharacters
  Recorded <- MCRecorded
  Scripts <- MCScripts
  Unprintable = "raw"
  DelayLimit = 8
  WordLimit = 16
  MaxEvents = 4
SPECIFICATION Spec
INVARIANT TypeOK
INVARIANT SameTimeline
INVARIANT PrintedMacroRestores
INVARIANT OnlyUnnamedRefused
INVARIANT TypedTextAppears
