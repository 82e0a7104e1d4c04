CONSTANTS
  Founded = 6
  Event <- MCEvent
  Remote <- MCRemote
  Local <- MCLocal
  StateIds <- MCStateIds
  Txn <- MCTxn
  Leaves <- MCLeaves
  Cutoff = 9
  IncludeLocal = FALSE
  MaxPrev = 4
  MaxReceives = 3
  MaxPurges = 0
  MaxDeletes = 0
  MaxErrors = 0
  MaxCrashes = 0
SPECIFICATION RoomSpec
PROPERTY NeverShown
CHECK_DEADLOCK FALSE
