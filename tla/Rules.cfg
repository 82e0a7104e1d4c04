SPECIFICATION RulesSpec
CONSTANTS
  Locals <- MCLocals
  Remotes <- MCRemotes
  Mods <- MCMods
  Ignores <- MCIgnores
  Guests <- MCGuests
  Confs <- MCConfs
  Requests <- MCRequests
  Slots = {1, 2}
  MaxJoinTries = 1
  MaxAccepts = 2
  MaxRequests = 3
  MaxRemote = 1
  Menus <- MCMenus
  Founded = 6
  MaxEvents = 9
  StateKey = {1, 2}
  Value = {1, 2}
  Given <- MCGiven
  MaxVersions = 5
  MaxCrashes = 1
CHECK_DEADLOCK FALSE
INVARIANTS
    ResolutionSound
    
    StatesLoad
