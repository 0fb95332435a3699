CONSTANTS
  SeqSpace <- MCSeqSpace
  SizeSpace <- MCSizeSpace
  Garbage = Garbage
  Blank = Blank
  MSS = 2
  MaxBytesInFlight = 4
  BufferSize = 2
  ISNs = {14}
  OpenModes = {FALSE, TRUE}
  MaxStream = 4
  MaxChunk = 2
  MaxLoss = 1
  Window = 2
SPECIFICATION Spec
PROPERTIES HandshakeCompletes BufferDrains
INVARIANTS TypeOK AlarmArmedWhileOutstanding SenderAndReceiverAgree
