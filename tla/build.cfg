\* Small programs from their sources to the memory they are loaded into.
SPECIFICATION Spec
CONSTANTS
  WordBits = 4
  Symbols <- MCSymbols
  LabelOf <- MCLabelOf
  NumberOf <- MCNumberOf
  BytesOf <- MCBytesOf
  Script <- MCScript
  DigitsOf <- MCDigitsOf
  Programs <- MCPrograms
  Trees <- MCTrees
  Members <- MCMembers
  BadLines <- MCBadLines
INVARIANTS TypeOK PreprocessedMeaning ScopesAgree ObjectsSurvive  ImageFaithful
PROPERTIES BuildEnds
