\* Three accepted saves (deploy, approve, enable) of two administrators, or of one
\* beside an agent with three profiles and one failed read.
CONSTANTS
  ann = ann
  bob = bob
  note = note
  pack = pack
  brand = brand
  base = base
  prose = prose
  toolOne = toolOne
  server = server
  open = open
  narrow = narrow
  prosaic = prosaic
  None = None
  All = All
  Names <- SomeNames
  Bytes <- SomeBytes
  KindOf <- Kinds
  Archives <- SomeArchives
  Admins <- TwoAdmins
  MaxWrites = 3
  Profiles <- SomeProfiles
  SkillsOf <- SomeSkills
  ToolsOf <- SomeTools
  ServersOf <- SomeServers
  PackagedSkills = {brand}
  PackagedTools = {base}
  MaxFailures = 1
  Scopes <- SomeScopes
SPECIFICATION Spec
INVARIANTS
  NamedBundlesStored
  ApprovalIsInformed
  InstalledIsCurrent
  UnpackedWasActive
PROPERTIES
  NoLostUpdate
CHECK_DEADLOCK FALSE
