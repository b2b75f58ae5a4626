\* Data in three pieces that need not differ, so that old, new and mixed data can coincide.
CONSTANTS
  Words = 3
  Symbols = {0, 1}
  Torn = Torn
  Corrupt = Corrupt
  None = None
SPECIFICATION Spec
INVARIANT TypeOK
PROPERTY Implements
