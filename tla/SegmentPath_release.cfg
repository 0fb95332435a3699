CONSTANTS
  DebugBuild = FALSE
  SizeSpace <- MCSizeSpace
  Local <- MCLocal
  Remote <- MCRemote
  Seqs <- MCSeqs
  Acks <- MCAcks
  Payloads <- MCPayloads
  FrameLen <- MCFrameLen
  QueueMax = 2
  Garbage <- MCGarbage
SPECIFICATION Spec
INVARIANT ChecksumVerifies
