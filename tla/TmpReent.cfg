\* Requests of 1 byte are on the stack, of 2 bytes on the list.
SPECIFICATION Spec
CONSTANTS
  Thread = {t1, t2}
  Node = {p1, p2, p3}
  Null = Null
  AllocaLimit = 2
  Align = 2
  Hsiz = 4
  MaxSize = 2
  MaxFrames = 2
  MaxBlocks = 2
INVARIANTS
  ListsExact
  NothingLost
  FreedWithSize
PROPERTY Implements
