CONSTANTS
  Founded = 6
  Event <- MCEvent
  Remote <- MCRemote
  Local <- MCLocal
  StateIds <- MCStateIds
  Txn <- MCTxn
  Leaves <- MCLeaves
  Cutoff = 9
  IncludeLocal = FALSE
  MaxPrev = 4
  MaxReceives = 3
  MaxPurges = 1
  MaxDeletes = 1
  MaxErrors = 1
  MaxCrashes = 1
SPECIFICATION RoomSpec
INVARIANTS TimelineOnce  StateIsHeld
CHECK_DEADLOCK FALSE
