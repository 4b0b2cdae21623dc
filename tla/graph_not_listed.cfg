SPECIFICATION Spec
CONSTANTS
  w1 = w1
  w2 = w2
  Workers = {w1, w2}
  A = A
  B = B
  places = places
  bare = bare
  GraphIds = {A, B}
  SlashPaths = {places}
  BarePaths = {bare}
  Root = root
  Under <- MCUnder
  Miss = miss
  NoPath = noPath
  ReadsOverlapWrites = FALSE
  PurgesArrive = TRUE
  MaxVersions = 2
  MaxDatasets = 2
INVARIANTS
  GraphsAreListed
