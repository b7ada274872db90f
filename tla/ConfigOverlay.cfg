SPECIFICATION FairSpec
CONSTANTS
  buddy = buddy
  analyst = analyst
  strict = strict
  broken = broken
  future = future
  pruned = pruned
  ProfileNames <- TwoNames
  Default = buddy
  Blank = Blank
  Documents <- AllDocuments
  Newer = {future}
  Corrupt = {broken}
  Entries <- TheEntries
  Packaged = Absent
  Absent = Absent
  Failed = Failed
  TTL = 2
  Attempts = 2
INVARIANTS
  CacheIsHonest
  RestrictionHolds
PROPERTY EditTakesEffect
