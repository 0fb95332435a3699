CONSTANTS
  SeqSpace <- MCSeqSpace
  SizeSpace <- MCSizeSpace
  Garbage = Garbage
  Blank = Blank
  MSS = 2
  MaxBytesInFlight = 4
  BufferSize = 5
  ISNs = {14}
  OpenModes = {FALSE, TRUE}
  MaxStream = 6
  MaxChunk = 3
  MaxLoss = 0
  Window = 1
SPECIFICATION Spec
INVARIANT BytesInFlightWithinCap
