CONSTANTS
  DebugBuild = TRUE
  SizeSpace <- MCSizeSpace
  OwnMac <- MCOwnMac
  Dsts <- MCDsts
  Srcs <- MCSrcs
  EtherTypes <- MCEtherTypes
  VersionBytes <- MCVersionBytes
  TTLs <- MCTTLs
  Protos <- MCProtos
  IpSrc <- MCIpSrc
  IpDst <- MCIpDst
  IpIdent <- MCIpIdent
SPECIFICATION RxSpec
INVARIANTS RxTypeOK ReceiveFilter
