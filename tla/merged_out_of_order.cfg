SPECIFICATION Spec
CONSTANTS
  w1 = w1
  w2 = w2
  Workers = {w1}
  author = author
  editor = editor
  Users = {editor}
  Editors = {editor}
  Loader = loader
  NoUser = nobody
  a1 = a1
  a2 = a2
  p1 = p1
  p2 = p2
  p3 = p3
  p4 = p4
  AuthorityIds = {a1, a2}
  PeriodIds = {p1, p2, p3, p4}
  AuthorityOf <- MCAuthorityOf
  s1 = s1
  s2 = s2
  s3 = s3
  Skolems = {s1, s2, s3}
  asLoaded = asLoaded
  changed = changed
  Contents = {asLoaded, changed}
  Root = root
  NoId = noId
  NoPatch = noPatch
  Patches <- Edits
  Initial = {a1, p1, p2}
  InitialContent = asLoaded
  SerialReview = TRUE
  MaxRequests = 3
  MaxVersions = 3
INVARIANTS
  RedirectKeepsContent
