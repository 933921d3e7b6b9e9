SPECIFICATION Spec
CONSTANTS
  Proc = {p1, p2}
  NULL = NULL
  NoName = NoName
  Name <- MCName
  InodeMax = 3
  PageMax = 1
  UintMax = 7
  FileMax = 3
  VnodeMax = 4
  MountMax = 3
  ScratchMax = 8
  SymloopMax = 2
  RootDir <- MCRootDir
  Link <- MCLink
  PathCalls <- MCCalls
  MountPaths <- MCMountPaths
  Tables <- MCTables
  MaxCalls = 4
  FileMaxOpen = 2
  FdMax = 2
  Lens = {2}
SYMMETRY MCSym
CHECK_DEADLOCK FALSE
INVARIANTS VnodeRefs BuffersReturned MountPinned DescRefs  PagesCounted
