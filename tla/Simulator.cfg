SPECIFICATION Spec
CONSTANTS
  Width = 8
  PageBytes = 16
  InitialSize = 2
  Probes = 4
  UpperBits = 4
  ArgBase = 64
  Commands <- MCCommands
  Chars <- MCChars
INVARIANT TableHasTheTexts
PROPERTIES ImplementsISA ArgumentsArePassed
CHECK_DEADLOCK FALSE
