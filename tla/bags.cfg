SPECIFICATION AccessSpec
CONSTANTS
  w1 = w1
  w2 = w2
  Workers = {w1, w2}
  maker = maker
  other = other
  newcomer = newcomer
  Users = {maker, other, newcomer}
  b1 = b1
  Uuids = {b1}
  Maker <- MCMaker
  q1 = q1
  q2 = q2
  q3 = q3
  Periods = {q1, q2, q3}
  Loaded = {q1, q2}
  Listings <- MCListings
  NoUser = nobody
  NoUuid = noBag
  MaxVersions = 3
  MaxDatasets = 2
  Registered = {maker, other}
  MaxRegistrations = 2
SYMMETRY WorkerSymmetry
ACTION_CONSTRAINT MCBound
INVARIANTS
  TypeOK
  RevisionChain
  AcknowledgedBagsLast
  OwnersKept
  ItemsExistedTogether
  AccessTypeOK
  PutsArePermitted
  PermissionsAsGranted
  NewestTokenWorks
  RefusalsHaveACause
