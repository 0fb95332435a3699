CONSTANTS
  SeqSpace <- MCSeqSpace
  SizeSpace <- MCSizeSpace
  Garbage = Garbage
  Blank = Blank
  MSS = 2
  MaxBytesInFlight = 4
  BufferSize = 4
  ISNs = {14}
  SegmentKinds = {SYN, SYNACK, ACK, RST}
SPECIFICATION Spec
PROPERTY ClosedIsSilent
