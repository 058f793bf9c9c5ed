SPECIFICATION Spec
CONSTANTS
  Builders = {b1, b2}
  text1 = text1
  text2 = text2
  Versions <- Contents
  ChunkIds <- Ids
  NONE = NONE
  Torn = Torn
  Mixed = Mixed
SYMMETRY Symmetric
INVARIANT EmbeddingsAreOfTheChunks
