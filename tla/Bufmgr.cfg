\* Three buffers; a runt, the longest frame that fits a buffer, and the
\* longest Ethernet frame, which does not.
CONSTANTS
  NumBuffers = 3
  Frames = {f1, f2}
  Lengths = {60, 1504, 1514}
  Zeros = Zeros
  NoFrame = NoFrame
SPECIFICATION FairSpec
INVARIANTS TypeOK ListsIntact Contents
PROPERTIES Ownership TickEnds PoolRefined DrainsWhenQuiet
