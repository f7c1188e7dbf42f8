\* Chunks on top of chunks, freed and allocated again: words of 2 bytes.
SPECIFICATION Spec
CONSTANTS
  ChunkId = {c1, c2, c3}
  Align = 2
  Hsiz = 4
  MaxSize = 3
  MaxFrames = 3
  MaxBlocks = 2
  MaxTotal = 18
INVARIANTS
  MarksValid
  LiveInChunk
  Accounting
  AllReturned
PROPERTY Implements
