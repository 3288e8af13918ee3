CONSTANTS
  NoMacro = NoMacro
  NoList = NoList
  PageLen = 8
  NumPages = 4
  Shipped <- MCShipped
  Lists <- MCLists
SPECIFICATION Spec
INVARIANTS TypeOK PagesHold SentMacrosHold
PROPERTIES ReadsBackWritten ReadIsSnapshot
