SPECIFICATION CentralScreensSpec
CONSTANTS
  shop = shop  bank = bank  elsewhere = elsewhere
  PendingGrace = 1
  World <- MCWorld
  RoleSet <- MCRoleSet
  Question <- MCQuestion
  Again <- MCAgain
  Here = Here
  NoOwner = NoOwner
  NotFound = NotFound
  Nothing = Nothing
  EventLimit = 2
  UnhealthyLimit = 2
  Span = 1
  Millisecond = 2
  MaxClock = 2
  MaxScreens = 2
INVARIANTS EventsAreShown
CHECK_DEADLOCK FALSE
