CONSTANTS
  esc = esc
  f1 = f1
  other = other
  shift = shift
  unbound = unbound
  empty = empty
  none = none
  NumSlots = 3
  Keys <- MCKeys
  Numbers <- MCNumbers
  Numbered <- MCNumbered
  Values <- MCValues
  Unbound = unbound
  Keyless <- MCKeyless
  Defaults <- MCDefaults
  NoAction = empty
  Levels <- MCLevels
  Css <- MCCss
  Hex <- MCHex
  NoLimit = none
  Boards <- MCBoards
  Typed <- MCTyped
SPECIFICATION Spec
INVARIANT TypeOK
INVARIANT ExportCompilesBack
INVARIANT ExportIsComplete
INVARIANT OnlyNamesakesOverwrite
