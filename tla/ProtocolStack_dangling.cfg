CONSTANTS
  Threads = {t1, t2}
  FDs <- MCFDs
  Ports <- MCPorts
  RandInputs <- MCRandInputs
  Remotes = {r1, r2}
  BindAddrs <- MCBindAddrs
  DefaultIP <- MCDefaultIP
  PeerPort <- MCPeerPort
  Backlogs <- MCBacklogs
  Kinds <- MCKinds
  MaxCalls = 5
  None = None
SPECIFICATION Spec
SYMMETRY MCSymmetry
INVARIANT StructsAreLive
