\* A vector client whose replies may have different keys.
SPECIFICATION Spec
CONSTANTS
  vec = vec
  one = one
  Conns = {vec}
  VectorConns = {vec}
  NumSlots = 2
  MaxRows = 2
  Failing = {}
  Cancellable = {}
  Unfit = {vec}
  MaxEpisodes = 2
  MaxObs = 1
INVARIANT DisconnectEndsItsEpisodes
\* Clients that are gone send nothing more.
CHECK_DEADLOCK FALSE
