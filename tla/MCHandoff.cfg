CONSTANTS
  Capacity = 3
  Values = {a, b}
  Blank = Blank
  MaxCount = 3
  Chunk = 2
SPECIFICATION HandoffFairSpec
INVARIANTS TypeOK NoSlotRace NoLostConnection
PROPERTIES ImplementsFifo QueuedIsTaken
