SPECIFICATION Spec
CONSTANTS
  vec = vec
  one = one
  two = two
  Conns = {vec, one}
  VectorConns = {vec}
  Width = 2
  Limits = {1, 4}
  Waits = TRUE
  Chunking = {one}
  ChunkLens = {0, 2}
  Mixed = TRUE
  Failing = {1}
  Cancellable = {one}
  MaxStarts = 3
  MaxObs = 2
INVARIANTS
  TypeOK
  ActionsAnswerTheirObservation
  ChunksEndWithTheirEpisode
  NoInferenceAfterFinish
  VectorStepsGo
PROPERTIES
  RequestsComplete
CHECK_DEADLOCK FALSE
