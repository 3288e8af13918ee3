CONSTANTS
  none = none
  None = none
  Symbols <- MCSymbols
  Labels <- MCLabels
  MacroNames <- MCMacroNames
  Factory <- MCFactory
  Held <- MCHeld
  Tables <- MCTables
  Typed <- MCTyped
SPECIFICATION Spec
INVARIANT TypeOK
INVARIANT PrintedRestores
INVARIANT OnlyKeylessRefused
INVARIANT FlagsAgree
INVARIANT ReferenceFindsMacro
