CONSTANTS
  SizeSpace <- MCSizeSpace
  Garbage = Garbage
  Blank = Blank
  Size = 3
  MaxLen = 4
  Bytes = {a, b}
SPECIFICATION Spec
PROPERTY
  FifoRefinement
