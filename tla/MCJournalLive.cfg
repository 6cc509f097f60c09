CONSTANTS
  File = {f1}
  None = None
  MaxObjects = 2
SPECIFICATION FairSpec
PROPERTIES CallsReturn SyncHappens
