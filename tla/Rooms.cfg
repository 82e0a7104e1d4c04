SPECIFICATION RoomsSpec
CONSTANTS
  Rooms = {o, n, m}
  Old = o
  NoRoom = NoRoom
  Aliases = {a}
  NoAlias = NoAlias
  Procs = {p, q}
  Nobody = Nobody
  Wants <- MCWants
  AllowEncryption = TRUE
  EncryptByDefault = "all"
  MaxOps = 2
  MaxSlips = 1
  Types <- MCTypes
  Senders = {"a", "b", "c"}
  Ignored = {}
  IsJoined = TRUE
  PageLimit = 1
  ContextLimit = 2
  BatchMax = 20
  MaxAppends = 3
  MaxBackfills = 1
  MaxLosses = 2
  Walks <- MCWalks
  Shapes <- MCShapes
  Root = "r"
  Limit = 1
  Depths = {2, 10}
  MaxChanges = 1
  MaxLostAnswers = 1
  Users = {u1, u2}
  Readers = {t1, t2}
  NobodyU = nobody
  MaxEvents = 2
  MaxReceipts = 2
  Asks <- MCAsks
  MissingLimit = 3
  WalkMax = 3
  BackfillLimit = 2
  Txns <- MCTxns
  Origins <- MCOrigins
  MaxDrops = 2
  PduLimit = 4
  EduLimit = 3
  DirRooms = {1, 2, 3}
  DirLimits = {0, 1, 2}
  DirFilters <- MCDirFilters
  SearchById = TRUE
  OverFederation = TRUE
  MaxDirChanges = 1
CHECK_DEADLOCK FALSE
INVARIANTS
    BirthSound
    CountsAgree
    TransactionSound
    ListingsWhole
