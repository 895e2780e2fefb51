\* The same two clients, with one slot: the callbacks return.
SPECIFICATION CallbackSpec
CONSTANTS
  vec = vec
  one = one
  Conns = {vec, one}
  VectorConns = {vec}
  NumSlots = 1
  MaxRows = 2
  Failing = {0}
  Cancellable = {one}
  Unfit = {one}
  MaxEpisodes = 3
  MaxObs = 1
PROPERTIES
  RepliesArrive
  ClosedConnectionsLetGo
\* Clients that are gone send nothing more.
CHECK_DEADLOCK FALSE
