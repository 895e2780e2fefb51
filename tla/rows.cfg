\* A vector client with two slots and a client with an episode of its own share
\* the rows of a server that runs two at once. They close when they like.
SPECIFICATION Spec
CONSTANTS
  vec = vec
  one = one
  Conns = {vec, one}
  VectorConns = {vec}
  NumSlots = 2
  MaxRows = 2
  Failing = {0}
  Cancellable = {one}
  Unfit = {}
  MaxEpisodes = 3
  MaxObs = 1
INVARIANTS
  TypeOK
  RowsHaveOneOwner
  RowsWithinLimit
PROPERTY ImplementsCallbacks
\* Clients that are gone send nothing more.
CHECK_DEADLOCK FALSE
